---- MODULE Spec2Model ----
(***************************************************************************)
(* A model of the normalize service: POST /normalize and GET /healthz of   *)
(* src/normalize/src/app.py with the extraction, categorisation and        *)
(* enrichment steps of src/normalize/src/logic.                            *)
(*                                                                         *)
(* Strings are sequences of one-character strings, so that lower(),        *)
(* strip(), substring search and the regular expressions of the source     *)
(* are computed and not assumed.  JSON values are tagged records           *)
(* [k |-> kind, v |-> value].                                               *)
(***************************************************************************)
EXTENDS Integers, Sequences, FiniteSets, TLC

(***************************************************************************)
(* Characters and the str methods the source uses.                         *)
(***************************************************************************)
UpperChars ==
    {"A","B","C","D","E","F","G","H","I","J","K","L","M",
     "N","O","P","Q","R","S","T","U","V","W","X","Y","Z"}

LowerChars ==
    {"a","b","c","d","e","f","g","h","i","j","k","l","m",
     "n","o","p","q","r","s","t","u","v","w","x","y","z"}

DigitChars == {"0","1","2","3","4","5","6","7","8","9"}

\* \w of the re module
WordChars == UpperChars \cup LowerChars \cup DigitChars \cup {"_"}

\* \s of the re module, and what str.strip() removes
SpaceChars == {" ", "\n", "\t"}

LowerOf ==
    [A |-> "a", B |-> "b", C |-> "c", D |-> "d", E |-> "e", F |-> "f",
     G |-> "g", H |-> "h", I |-> "i", J |-> "j", K |-> "k", L |-> "l",
     M |-> "m", N |-> "n", O |-> "o", P |-> "p", Q |-> "q", R |-> "r",
     S |-> "s", T |-> "t", U |-> "u", V |-> "v", W |-> "w", X |-> "x",
     Y |-> "y", Z |-> "z"]

UpperOf ==
    [a |-> "A", b |-> "B", c |-> "C", d |-> "D", e |-> "E", f |-> "F",
     g |-> "G", h |-> "H", i |-> "I", j |-> "J", k |-> "K", l |-> "L",
     m |-> "M", n |-> "N", o |-> "O", p |-> "P", q |-> "Q", r |-> "R",
     s |-> "S", t |-> "T", u |-> "U", v |-> "V", w |-> "W", x |-> "X",
     y |-> "Y", z |-> "Z"]

\* str.lower()
lower(s) == [i \in 1..Len(s) |-> IF s[i] \in UpperChars THEN LowerOf[s[i]] ELSE s[i]]

\* str.upper()
upper(s) == [i \in 1..Len(s) |-> IF s[i] \in LowerChars THEN UpperOf[s[i]] ELSE s[i]]

RECURSIVE lstrip(_)
lstrip(s) == IF s # <<>> /\ Head(s) \in SpaceChars THEN lstrip(Tail(s)) ELSE s

RECURSIVE rstrip(_)
rstrip(s) ==
    IF s # <<>> /\ s[Len(s)] \in SpaceChars THEN rstrip(SubSeq(s, 1, Len(s) - 1)) ELSE s

\* str.strip()
strip(s) == rstrip(lstrip(s))

\* s[i:] starts with p
StartsWithAt(s, i, p) ==
    /\ i + Len(p) - 1 <= Len(s)
    /\ \A j \in 1..Len(p) : s[i + j - 1] = p[j]

\* s.startswith(p)
startswith(s, p) == StartsWithAt(s, 1, p)

\* p in s  (substring test of two str)
Contains(s, p) == \E i \in 1..(Len(s) + 1) : StartsWithAt(s, i, p)

\* s.split(",")[0]
RECURSIVE BeforeComma(_)
BeforeComma(s) ==
    IF s = <<>> \/ Head(s) = "," THEN <<>> ELSE <<Head(s)>> \o BeforeComma(Tail(s))

\* x in xs, for a list xs
InList(x, xs) == \E i \in 1..Len(xs) : xs[i] = x

\* the elements of a list
Range(xs) == {xs[i] : i \in 1..Len(xs)}

(***************************************************************************)
(* Regular expressions of the re module, as trees, with a backtracking     *)
(* matcher that lists the ways a pattern matches at a position in the      *)
(* order re tries them (greedy repetition first, alternatives left to      *)
(* right).  A result is [e |-> position after the match, c |-> groups].    *)
(***************************************************************************)
ReSet(S) == [t |-> "set", s |-> S]
ReChr(c) == [t |-> "set", s |-> {c}]
ReCat(rs) == [t |-> "cat", rs |-> rs]
ReAlt(rs) == [t |-> "alt", rs |-> rs]
RePlus(r) == [t |-> "plus", r |-> r]
ReStar(r) == [t |-> "star", r |-> r]
ReOpt(r) == [t |-> "opt", r |-> r]
ReGrp(n, r) == [t |-> "grp", n |-> n, r |-> r]
ReWb == [t |-> "wb"]
ReBol == [t |-> "bol"]
ReEol == [t |-> "eol"]
ReStr(p) == [t |-> "cat", rs |-> [i \in 1..Len(p) |-> ReChr(p[i])]]
ReRep(r, n) == [t |-> "cat", rs |-> [i \in 1..n |-> r]]

\* no pattern of the source has more than three groups
NoGroups == <<<<>>, <<>>, <<>>>>

IsWordAt(s, i) == i >= 1 /\ i <= Len(s) /\ s[i] \in WordChars

\* the ways r matches s at position i, groups c being set so far, as
\* [e, c]: the position after the match and the groups then.  They are in
\* the order in which a backtracking matcher tries them.
RECURSIVE ReM(_, _, _, _), ReCatM(_, _, _, _, _), ReCatEach(_, _, _, _, _),
          ReAltM(_, _, _, _, _), RePlusM(_, _, _, _, _)

\* rs[k], rs[k + 1], ... one after the other
ReCatM(rs, k, s, i, c) ==
    IF k > Len(rs) THEN <<[e |-> i, c |-> c]>>
    ELSE ReCatEach(rs, k, s, ReM(rs[k], s, i, c), 1)

\* each way first[j], first[j + 1], ... of matching rs[k], continued
ReCatEach(rs, k, s, first, j) ==
    IF j > Len(first) THEN <<>>
    ELSE ReCatM(rs, k + 1, s, first[j].e, first[j].c) \o ReCatEach(rs, k, s, first, j + 1)

\* rs[k], or else rs[k + 1], ...
ReAltM(rs, k, s, i, c) ==
    IF k > Len(rs) THEN <<>> ELSE ReM(rs[k], s, i, c) \o ReAltM(rs, k + 1, s, i, c)

\* r matched once at i in the ways first[j], first[j + 1], ..., and then
\* as often as it can be: the longer matches first
RePlusM(r, first, j, s, i) ==
    IF j > Len(first) THEN <<>>
    ELSE (IF first[j].e > i
          THEN RePlusM(r, ReM(r, s, first[j].e, first[j].c), 1, s, first[j].e)
          ELSE <<>>)
         \o <<first[j]>> \o RePlusM(r, first, j + 1, s, i)

\* the matches inner of the body of group n at i, the group being set
ReGrpM(n, inner, s, i) ==
    [j \in 1..Len(inner) |->
        [e |-> inner[j].e,
         c |-> [inner[j].c EXCEPT ![n] = SubSeq(s, i, inner[j].e - 1)]]]

ReM(r, s, i, c) ==
    CASE r.t = "set" ->
             IF i <= Len(s) /\ s[i] \in r.s THEN <<[e |-> i + 1, c |-> c]>> ELSE <<>>
      [] r.t = "cat" -> ReCatM(r.rs, 1, s, i, c)
      [] r.t = "alt" -> ReAltM(r.rs, 1, s, i, c)
      [] r.t = "plus" -> RePlusM(r.r, ReM(r.r, s, i, c), 1, s, i)
      [] r.t = "star" -> RePlusM(r.r, ReM(r.r, s, i, c), 1, s, i) \o <<[e |-> i, c |-> c]>>
      [] r.t = "opt" -> ReM(r.r, s, i, c) \o <<[e |-> i, c |-> c]>>
      [] r.t = "grp" -> ReGrpM(r.n, ReM(r.r, s, i, c), s, i)
      [] r.t = "wb" ->
             IF IsWordAt(s, i - 1) # IsWordAt(s, i) THEN <<[e |-> i, c |-> c]>> ELSE <<>>
      [] r.t = "bol" -> IF i = 1 THEN <<[e |-> i, c |-> c]>> ELSE <<>>
      [] r.t = "eol" ->
             IF i = Len(s) + 1 \/ (i = Len(s) /\ s[i] = "\n")
             THEN <<[e |-> i, c |-> c]>> ELSE <<>>

\* the first of the matches ms, if any, as the match object that began at b
FirstMatch(ms, b) ==
    IF ms = <<>> THEN <<>> ELSE <<[b |-> b, e |-> ms[1].e, c |-> ms[1].c]>>

\* re.match(r, s): <<>> when there is no match, else <<[b, e, c]>>
ReMatch(r, s) == FirstMatch(ReM(r, s, 1, NoGroups), 1)

\* the positions from i on at which r matches
MatchStarts(r, s, i) == {j \in i..(Len(s) + 1) : ReM(r, s, j, NoGroups) # <<>>}

MinOf(S) == CHOOSE x \in S : \A y \in S : x <= y

\* the match at the leftmost of the positions starts
LeftmostMatch(r, s, starts) ==
    IF starts = {} THEN <<>>
    ELSE FirstMatch(ReM(r, s, MinOf(starts), NoGroups), MinOf(starts))

\* re.search(r, s) from position i on
ReSearchFrom(r, s, i) == LeftmostMatch(r, s, MatchStarts(r, s, i))

\* re.search(r, s)
ReSearch(r, s) == ReSearchFrom(r, s, 1)

\* re.findall(r, s) of a pattern with one group: the group of each match
RECURSIVE ReFindallFrom(_, _, _), ReFindallNext(_, _, _)
ReFindallNext(r, s, m) ==
    IF m = <<>> THEN <<>>
    ELSE <<m[1].c[1]>> \o
         ReFindallFrom(r, s, IF m[1].e > m[1].b THEN m[1].e ELSE m[1].e + 1)

ReFindallFrom(r, s, i) == ReFindallNext(r, s, ReSearchFrom(r, s, i))

ReFindall(r, s) == ReFindallFrom(r, s, 1)

(***************************************************************************)
(* JSON values as json.loads builds them: None, str, int, list, dict.      *)
(* A dict maps key names (atoms, only ever compared) to JSON values.       *)
(***************************************************************************)
JNull == [k |-> "null", v |-> <<>>]
JStr(s) == [k |-> "str", v |-> s]
JNum(n) == [k |-> "num", v |-> n]
JList(xs) == [k |-> "list", v |-> xs]
JObj(f) == [k |-> "obj", v |-> f]

\* bool(x) of a JSON value
Truthy(x) ==
    CASE x.k = "null" -> FALSE
      [] x.k = "str" -> x.v # <<>>
      [] x.k = "num" -> x.v # 0
      [] x.k = "list" -> x.v # <<>>
      [] x.k = "obj" -> DOMAIN x.v # {}

\* d.get(key, default) of a dict d
JGet(d, key, default) == IF key \in DOMAIN d.v THEN d.v[key] ELSE default

\* what a function returns or raises
Ok(v) == [exc |-> "none", val |-> v]
Raise(e) == [exc |-> e, val |-> <<>>]

(***************************************************************************)
(* src/logic/text_utils.py                                                 *)
(***************************************************************************)
\* re.sub(r'\s+', ' ', s)
RECURSIVE CollapseSpaces(_)
CollapseSpaces(s) ==
    IF s = <<>> THEN <<>>
    ELSE IF Head(s) \in SpaceChars
         THEN <<" ">> \o CollapseSpaces(lstrip(s))
         ELSE <<Head(s)>> \o CollapseSpaces(Tail(s))

normalize_text(text) == CollapseSpaces(lower(strip(text)))

IsDigit(c) == c \in DigitChars

\* re.sub(r'\D', '', phone)
extract_phone_digits(phone) == SelectSeq(phone, IsDigit)

\* [\w\.\+\-]+@[\w\.\-]+\.\w+
EmailRe ==
    ReCat(<<RePlus(ReSet(WordChars \cup {".", "+", "-"})), ReChr("@"),
            RePlus(ReSet(WordChars \cup {".", "-"})), ReChr("."),
            RePlus(ReSet(WordChars))>>)

is_valid_email(email) == ReMatch(EmailRe, email) # <<>>

\* ^\d{5}$
ZipRe == ReCat(<<ReBol, ReRep(ReSet(DigitChars), 5), ReEol>>)

is_valid_zip(zip_code) == ReMatch(ZipRe, zip_code) # <<>>

(***************************************************************************)
(* src/logic/categorizer.py                                                *)
(***************************************************************************)
high_risk_keywords ==
    <<<<"l","o","s","t"," ","p","a","s","s","p","o","r","t">>,
      <<"p","a","s","s","p","o","r","t"," ","s","t","o","l","e","n">>,
      <<"w","a","l","l","e","t"," ","s","t","o","l","e","n">>,
      <<"c","r","e","d","i","t"," ","c","a","r","d"," ","s","t","o","l","e","n">>,
      <<"h","o","s","p","i","t","a","l">>,
      <<"m","e","d","i","c","a","l"," ","e","m","e","r","g","e","n","c","y">>,
      <<"p","o","l","i","c","e">>,
      <<"a","r","r","e","s","t","e","d">>,
      <<"k","i","d","n","a","p","p","e","d">>,
      <<"v","i","s","a"," ","d","e","n","i","e","d">>,
      <<"s","c","a","m">>,
      <<"f","r","a","u","d">>,
      <<"s","t","o","l","e","n">>,
      <<"e","m","e","r","g","e","n","c","y">>>>

urgent_keywords ==
    <<<<"t","o","d","a","y">>,
      <<"t","o","n","i","g","h","t">>,
      <<"t","o","m","o","r","r","o","w">>,
      <<"a","s","a","p">>,
      <<"i","m","m","e","d","i","a","t","e","l","y">>,
      <<"u","r","g","e","n","t">>,
      <<"n","o","w">>,
      <<"f","i","r","s","t"," ","t","h","i","n","g">>>>

urgent == <<"u","r","g","e","n","t">>
high_risk == <<"h","i","g","h","_","r","i","s","k">>
base == <<"b","a","s","e">>

\* Literal["urgent", "high_risk", "base"]
Categories == {urgent, high_risk, base}

\* the two keyword tests in the other order
_fallback_categorize_urgent_first(text) ==
    LET text_lower == lower(text)
    IN IF \E i \in 1..Len(urgent_keywords) : Contains(text_lower, urgent_keywords[i])
       THEN urgent
       ELSE IF \E i \in 1..Len(high_risk_keywords) : Contains(text_lower, high_risk_keywords[i])
            THEN high_risk
            ELSE base

_fallback_categorize(text) ==
    LET text_lower == lower(text)
    IN IF \E i \in 1..Len(high_risk_keywords) : Contains(text_lower, high_risk_keywords[i])
       THEN high_risk
       ELSE IF \E i \in 1..Len(urgent_keywords) : Contains(text_lower, urgent_keywords[i])
            THEN urgent
            ELSE base

(***************************************************************************)
(* The chat-completion call of the three LLM-backed steps.  A call ends    *)
(* in one of LLMFailures, or "ok" with the content of choices[0].message.  *)
(*   conn_error, timeout : client.post raises                              *)
(*   http_error          : raise_for_status raises                         *)
(*   bad_body            : response.json() raises                          *)
(*   no_content          : the body has no choices[0].message.content      *)
(*   null_content        : the content is null, so .strip() raises         *)
(***************************************************************************)
LLMFailures == {"conn_error", "timeout", "http_error", "bad_body", "no_content", "null_content"}

LLMFailed(kind) == [kind |-> kind, content |-> <<>>]
LLMContent(content) == [kind |-> "ok", content |-> content]

\* categorize without the validation of lines 55-59: the content as it is
categorize_unvalidated(text, llm) ==
    IF llm.kind # "ok" THEN _fallback_categorize(text) ELSE lower(strip(llm.content))

\* categorize with "base" in place of the keyword heuristic of line 63
categorize_base_on_failure(text, llm) ==
    IF llm.kind # "ok" THEN base
    ELSE IF lower(strip(llm.content)) \in Categories THEN lower(strip(llm.content)) ELSE base

\* categorize with the keyword heuristic in place of "base" at line 59
categorize_heuristic_on_unexpected(text, llm) ==
    IF llm.kind # "ok" THEN _fallback_categorize(text)
    ELSE IF lower(strip(llm.content)) \in Categories THEN lower(strip(llm.content))
         ELSE _fallback_categorize(text)

\* categorize, once the API key is known to be set: lines 34-63
categorize(text, llm) ==
    IF llm.kind # "ok" THEN _fallback_categorize(text)
    ELSE LET category == lower(strip(llm.content))
         IN IF category \in Categories THEN category ELSE base

(***************************************************************************)
(* The content of a JSON-prompt completion, as the pieces that decide how  *)
(* it is unwrapped and parsed, in order:                                   *)
(*   "fence_json" : the text ```json      "fence" : the text ```           *)
(*   "ws"         : whitespace            "text"  : any other prose        *)
(*   "json"       : the text of one JSON value, v what json.loads makes    *)
(*                  of it                                                  *)
(***************************************************************************)
Piece(kind) == [k |-> kind, v |-> JNull]
PJson(value) == [k |-> "json", v |-> value]

IsWs(p) == p.k = "ws"
NotWs(p) == p.k # "ws"
NotFenceJson(p) == p.k # "fence_json"
NotFence(p) == p.k # "fence"

RECURSIVE lstrip_doc(_)
lstrip_doc(d) == IF d # <<>> /\ IsWs(Head(d)) THEN lstrip_doc(Tail(d)) ELSE d

RECURSIVE rstrip_doc(_)
rstrip_doc(d) ==
    IF d # <<>> /\ IsWs(d[Len(d)]) THEN rstrip_doc(SubSeq(d, 1, Len(d) - 1)) ELSE d

\* content.strip()
strip_doc(d) == rstrip_doc(lstrip_doc(d))

\* "```json" holds "```": replacing "```" alone leaves the prose "json"
FenceJsonToText(d) == [i \in 1..Len(d) |-> IF d[i].k = "fence_json" THEN Piece("text") ELSE d[i]]

\* "Remove markdown code blocks if present": the if / elif of both JSON steps
strip_code_fence(content) ==
    IF content # <<>> /\ content[1].k = "fence_json"
    THEN strip_doc(SelectSeq(SelectSeq(content, NotFenceJson), NotFence))
    ELSE IF content # <<>> /\ content[1].k = "fence"
         THEN strip_doc(SelectSeq(FenceJsonToText(content), NotFence))
         ELSE content

\* json.loads(content): one JSON value, whitespace around it allowed
json_loads(content) ==
    LET rest == SelectSeq(content, NotWs)
    IN IF Len(rest) = 1 /\ rest[1].k = "json" THEN Ok(rest[1].v)
       ELSE Raise("JSONDecodeError")

(***************************************************************************)
(* src/logic/extract_contact.py                                            *)
(***************************************************************************)
CapitalizedWord == ReCat(<<ReSet(UpperChars), RePlus(ReSet(LowerChars))>>)
Spaces1 == RePlus(ReSet(SpaceChars))
Spaces0 == ReStar(ReSet(SpaceChars))
TwoNames == <<Spaces1, ReGrp(1, CapitalizedWord), Spaces1, ReGrp(2, CapitalizedWord)>>

NamePatterns ==
    <<ReCat(<<ReAlt(<<ReStr(<<"I","'","m">>), ReStr(<<"I"," ","a","m">>),
                      ReStr(<<"T","h","i","s"," ","i","s">>)>>)>> \o TwoNames),
      ReCat(<<ReAlt(<<ReStr(<<"H","i">>), ReStr(<<"H","e","l","l","o">>),
                      ReStr(<<"H","e","y">>)>>),
              Spaces1, RePlus(ReSet(UpperChars \cup LowerChars)), ReChr(","), Spaces0,
              ReStr(<<"I","'","m">>)>> \o TwoNames),
      ReCat(<<ReStr(<<"M","y"," ","n","a","m","e"," ","i","s">>)>> \o TwoNames)>>

\* the first pattern that matches decides; <<>> stands for None
RECURSIVE FirstNames(_, _), NamesOrNext(_, _, _)
NamesOrNext(m, text, k) ==
    IF m # <<>> THEN <<m[1].c[1], m[1].c[2]>> ELSE FirstNames(text, k + 1)

FirstNames(text, k) ==
    IF k > Len(NamePatterns) THEN <<>>
    ELSE NamesOrNext(ReSearch(NamePatterns[k], text), text, k)

_extract_names_fallback(text) == FirstNames(text, 1)

\* match.group(0) of a match object m, or None
Group0(m, text) == IF m # <<>> THEN JStr(SubSeq(text, m[1].b, m[1].e - 1)) ELSE JNull

\* match.group(1) of a match object m, or None
Group1(m) == IF m # <<>> THEN JStr(m[1].c[1]) ELSE JNull

_extract_email_fallback(text) == Group0(ReSearch(EmailRe, text), text)

D3 == ReRep(ReSet(DigitChars), 3)
D4 == ReRep(ReSet(DigitChars), 4)
DashOrDot == ReSet({"-", "."})

PhonePatterns ==
    <<ReCat(<<ReChr("("), ReGrp(1, D3), ReChr(")"), Spaces0, ReGrp(2, D3),
              ReOpt(DashOrDot), ReGrp(3, D4)>>),
      ReCat(<<ReGrp(1, D3), DashOrDot, ReGrp(2, D3), DashOrDot, ReGrp(3, D4)>>),
      ReCat(<<ReGrp(1, D3), Spaces1, ReGrp(2, D3), Spaces1, ReGrp(3, D4)>>),
      ReGrp(1, ReRep(ReSet(DigitChars), 10))>>

\* ''.join(match.groups()); an unused group is the empty string here
RECURSIVE FirstPhone(_, _), PhoneOrNext(_, _, _)
PhoneOrNext(m, text, k) ==
    IF m # <<>>
    THEN JStr(extract_phone_digits(m[1].c[1] \o m[1].c[2] \o m[1].c[3]))
    ELSE FirstPhone(text, k + 1)

FirstPhone(text, k) ==
    IF k > Len(PhonePatterns) THEN JNull
    ELSE PhoneOrNext(ReSearch(PhonePatterns[k], text), text, k)

_extract_phone_fallback(text) == FirstPhone(text, 1)

\* \b(\d{5})\b
ZipSearchRe == ReCat(<<ReWb, ReGrp(1, ReRep(ReSet(DigitChars), 5)), ReWb>>)

_extract_zip_fallback(text) == Group1(ReSearch(ZipSearchRe, text))

\* lines 129-150 of _fallback_extract_contact: the dict built of what the
\* four helpers found
FallbackContact(names, email, phone, zip_code) ==
    [first_name |-> IF names # <<>> THEN JStr(names[1]) ELSE JNull,
     last_name |-> IF names # <<>> /\ Len(names) > 1 THEN JStr(names[2]) ELSE JNull,
     email |-> IF Truthy(email) /\ is_valid_email(email.v) THEN email ELSE JNull,
     phone |-> IF Truthy(phone) THEN phone ELSE JNull,
     zip |-> IF Truthy(zip_code) /\ is_valid_zip(zip_code.v) THEN zip_code ELSE JNull]

_fallback_extract_contact(text) ==
    FallbackContact(_extract_names_fallback(text), _extract_email_fallback(text),
                    _extract_phone_fallback(text), _extract_zip_fallback(text))

\* lines 86-107: the five fields of the parsed object, validated and cleaned.
\* contact_data.get raises AttributeError unless contact_data is a dict;
\* the re functions raise TypeError on a value that is not a str.
CleanContact(contact_data) ==
    IF contact_data.k # "obj" THEN Raise("AttributeError")
    ELSE LET first_name == JGet(contact_data, "first_name", JNull)
             last_name == JGet(contact_data, "last_name", JNull)
             email == JGet(contact_data, "email", JNull)
             phone == JGet(contact_data, "phone", JNull)
             zip == JGet(contact_data, "zip", JNull)
         IN IF \/ Truthy(email) /\ email.k # "str"
               \/ Truthy(phone) /\ phone.k # "str"
               \/ Truthy(zip) /\ zip.k # "str"
            THEN Raise("TypeError")
            ELSE Ok([first_name |-> first_name,
                     last_name |-> last_name,
                     email |-> IF Truthy(email) /\ ~is_valid_email(email.v)
                               THEN JNull ELSE email,
                     phone |-> IF Truthy(phone)
                               THEN IF Len(extract_phone_digits(phone.v)) # 10
                                    THEN JNull
                                    ELSE JStr(extract_phone_digits(phone.v))
                               ELSE phone,
                     zip |-> IF Truthy(zip) /\ ~is_valid_zip(zip.v) THEN JNull ELSE zip])

\* lines 55-107, the body of the try: what it comes to, or what it raises
CleanParsed(parsed) == IF parsed.exc # "none" THEN parsed ELSE CleanContact(parsed.val)

TryExtractContact(llm) ==
    IF llm.kind # "ok" THEN Raise("HTTPError")
    ELSE CleanParsed(json_loads(strip_code_fence(strip_doc(llm.content))))

\* lines 109-115 with a dict of five None in place of the regex fallback
ContactOrFallback_nulls(tried, text) ==
    IF tried.exc # "none"
    THEN [first_name |-> JNull, last_name |-> JNull, email |-> JNull,
          phone |-> JNull, zip |-> JNull]
    ELSE tried.val

\* lines 109-115: except Exception, fall back
ContactOrFallback(tried, text) ==
    IF tried.exc # "none" THEN _fallback_extract_contact(text) ELSE tried.val

\* extract_contact, once the API key is known to be set: lines 55-115
extract_contact(text, llm) == ContactOrFallback(TryExtractContact(llm), text)

(***************************************************************************)
(* src/models.py: what pydantic accepts.  Optional[str] takes None or a    *)
(* str; a list or a dict in its place is a ValidationError.                *)
(***************************************************************************)
OptionalStr(x) == x.k \in {"null", "str"}

ContactFields == {"first_name", "last_name", "email", "phone", "zip"}

\* Contact(**contact_data)
Contact(contact_data) ==
    IF \A f \in ContactFields : OptionalStr(contact_data[f])
    THEN Ok(JObj(contact_data)) ELSE Raise("ValidationError")

\* any(d.values()) of a dict given as a record
AnyValue(d) == \E f \in DOMAIN d : Truthy(d[f])

(***************************************************************************)
(* src/logic/extract_entities.py                                           *)
(***************************************************************************)
CityT == <<"c","i","t","y">>
CountryT == <<"c","o","u","n","t","r","y">>
HotelT == <<"h","o","t","e","l">>
RestaurantT == <<"r","e","s","t","a","u","r","a","n","t">>

\* Literal["city", "country", "hotel", "restaurant"]
EntityTypes == {CityT, CountryT, HotelT, RestaurantT}

\* the dict literal of _get_country_name_mappings, in source order
MappingItems ==
    <<<<<<"s","o","u","t","h"," ","a","f","r","i","c","a">>, <<"Z","A">>>>,
      <<<<"s","o","u","t","h"," ","k","o","r","e","a">>, <<"K","R">>>>,
      <<<<"n","o","r","t","h"," ","k","o","r","e","a">>, <<"K","P">>>>,
      <<<<"u","n","i","t","e","d"," ","s","t","a","t","e","s">>, <<"U","S">>>>,
      <<<<"u","n","i","t","e","d"," ","k","i","n","g","d","o","m">>, <<"G","B">>>>,
      <<<<"g","r","e","a","t"," ","b","r","i","t","a","i","n">>, <<"G","B">>>>,
      <<<<"g","e","r","m","a","n","y">>, <<"D","E">>>>,
      <<<<"f","r","a","n","c","e">>, <<"F","R">>>>,
      <<<<"i","t","a","l","y">>, <<"I","T">>>>,
      <<<<"s","p","a","i","n">>, <<"E","S">>>>,
      <<<<"n","e","t","h","e","r","l","a","n","d","s">>, <<"N","L">>>>,
      <<<<"b","e","l","g","i","u","m">>, <<"B","E">>>>,
      <<<<"s","w","i","t","z","e","r","l","a","n","d">>, <<"C","H">>>>,
      <<<<"a","u","s","t","r","i","a">>, <<"A","T">>>>,
      <<<<"c","h","i","n","a">>, <<"C","N">>>>,
      <<<<"j","a","p","a","n">>, <<"J","P">>>>,
      <<<<"a","u","s","t","r","a","l","i","a">>, <<"A","U">>>>,
      <<<<"c","a","n","a","d","a">>, <<"C","A">>>>,
      <<<<"m","e","x","i","c","o">>, <<"M","X">>>>,
      <<<<"b","r","a","z","i","l">>, <<"B","R">>>>,
      <<<<"a","r","g","e","n","t","i","n","a">>, <<"A","R">>>>,
      <<<<"c","h","i","l","e">>, <<"C","L">>>>,
      <<<<"c","o","l","o","m","b","i","a">>, <<"C","O">>>>,
      <<<<"p","e","r","u">>, <<"P","E">>>>,
      <<<<"v","e","n","e","z","u","e","l","a">>, <<"V","E">>>>,
      <<<<"r","u","s","s","i","a">>, <<"R","U">>>>,
      <<<<"i","n","d","i","a">>, <<"I","N">>>>,
      <<<<"t","h","a","i","l","a","n","d">>, <<"T","H">>>>,
      <<<<"v","i","e","t","n","a","m">>, <<"V","N">>>>,
      <<<<"s","i","n","g","a","p","o","r","e">>, <<"S","G">>>>,
      <<<<"m","a","l","a","y","s","i","a">>, <<"M","Y">>>>,
      <<<<"i","n","d","o","n","e","s","i","a">>, <<"I","D">>>>,
      <<<<"p","h","i","l","i","p","p","i","n","e","s">>, <<"P","H">>>>,
      <<<<"t","u","r","k","e","y">>, <<"T","R">>>>,
      <<<<"e","g","y","p","t">>, <<"E","G">>>>,
      <<<<"m","o","r","o","c","c","o">>, <<"M","A">>>>,
      <<<<"k","e","n","y","a">>, <<"K","E">>>>,
      <<<<"n","i","g","e","r","i","a">>, <<"N","G">>>>,
      <<<<"g","h","a","n","a">>, <<"G","H">>>>,
      <<<<"i","r","a","n">>, <<"I","R">>>>,
      <<<<"i","r","a","q">>, <<"I","Q">>>>,
      <<<<"i","s","r","a","e","l">>, <<"I","L">>>>,
      <<<<"j","o","r","d","a","n">>, <<"J","O">>>>,
      <<<<"l","e","b","a","n","o","n">>, <<"L","B">>>>,
      <<<<"s","a","u","d","i"," ","a","r","a","b","i","a">>, <<"S","A">>>>,
      <<<<"u","a","e">>, <<"A","E">>>>,
      <<<<"u","n","i","t","e","d"," ","a","r","a","b"," ","e","m","i","r","a","t","e","s">>, <<"A","E">>>>,
      <<<<"n","e","w"," ","z","e","a","l","a","n","d">>, <<"N","Z">>>>,
      <<<<"p","a","r","i","s">>, <<"F","R">>>>,
      <<<<"l","o","n","d","o","n">>, <<"G","B">>>>,
      <<<<"b","e","r","l","i","n">>, <<"D","E">>>>,
      <<<<"m","a","d","r","i","d">>, <<"E","S">>>>,
      <<<<"b","a","r","c","e","l","o","n","a">>, <<"E","S">>>>,
      <<<<"a","m","s","t","e","r","d","a","m">>, <<"N","L">>>>,
      <<<<"b","r","u","s","s","e","l","s">>, <<"B","E">>>>,
      <<<<"v","i","e","n","n","a">>, <<"A","T">>>>,
      <<<<"z","u","r","i","c","h">>, <<"C","H">>>>,
      <<<<"g","e","n","e","v","a">>, <<"C","H">>>>,
      <<<<"s","t","o","c","k","h","o","l","m">>, <<"S","E">>>>,
      <<<<"o","s","l","o">>, <<"N","O">>>>,
      <<<<"c","o","p","e","n","h","a","g","e","n">>, <<"D","K">>>>,
      <<<<"h","e","l","s","i","n","k","i">>, <<"F","I">>>>,
      <<<<"p","r","a","g","u","e">>, <<"C","Z">>>>,
      <<<<"b","u","d","a","p","e","s","t">>, <<"H","U">>>>,
      <<<<"w","a","r","s","a","w">>, <<"P","L">>>>,
      <<<<"m","o","s","c","o","w">>, <<"R","U">>>>,
      <<<<"s","t"," ","p","e","t","e","r","s","b","u","r","g">>, <<"R","U">>>>,
      <<<<"t","o","k","y","o">>, <<"J","P">>>>,
      <<<<"o","s","a","k","a">>, <<"J","P">>>>,
      <<<<"k","y","o","t","o">>, <<"J","P">>>>,
      <<<<"s","e","o","u","l">>, <<"K","R">>>>,
      <<<<"b","e","i","j","i","n","g">>, <<"C","N">>>>,
      <<<<"s","h","a","n","g","h","a","i">>, <<"C","N">>>>,
      <<<<"h","o","n","g"," ","k","o","n","g">>, <<"H","K">>>>,
      <<<<"s","i","n","g","a","p","o","r","e">>, <<"S","G">>>>,
      <<<<"b","a","n","g","k","o","k">>, <<"T","H">>>>,
      <<<<"m","u","m","b","a","i">>, <<"I","N">>>>,
      <<<<"d","e","l","h","i">>, <<"I","N">>>>,
      <<<<"b","a","n","g","a","l","o","r","e">>, <<"I","N">>>>,
      <<<<"s","y","d","n","e","y">>, <<"A","U">>>>,
      <<<<"m","e","l","b","o","u","r","n","e">>, <<"A","U">>>>,
      <<<<"t","o","r","o","n","t","o">>, <<"C","A">>>>,
      <<<<"v","a","n","c","o","u","v","e","r">>, <<"C","A">>>>,
      <<<<"m","o","n","t","r","e","a","l">>, <<"C","A">>>>,
      <<<<"n","e","w"," ","y","o","r","k">>, <<"U","S">>>>,
      <<<<"n","y","c">>, <<"U","S">>>>,
      <<<<"l","o","s"," ","a","n","g","e","l","e","s">>, <<"U","S">>>>,
      <<<<"c","h","i","c","a","g","o">>, <<"U","S">>>>,
      <<<<"s","a","n"," ","f","r","a","n","c","i","s","c","o">>, <<"U","S">>>>,
      <<<<"m","i","a","m","i">>, <<"U","S">>>>,
      <<<<"l","a","s"," ","v","e","g","a","s">>, <<"U","S">>>>,
      <<<<"b","o","s","t","o","n">>, <<"U","S">>>>,
      <<<<"w","a","s","h","i","n","g","t","o","n">>, <<"U","S">>>>,
      <<<<"s","e","a","t","t","l","e">>, <<"U","S">>>>,
      <<<<"m","e","x","i","c","o"," ","c","i","t","y">>, <<"M","X">>>>,
      <<<<"c","a","n","c","u","n">>, <<"M","X">>>>,
      <<<<"r","i","o"," ","d","e"," ","j","a","n","e","i","r","o">>, <<"B","R">>>>,
      <<<<"s","a","o"," ","p","a","u","l","o">>, <<"B","R">>>>,
      <<<<"b","u","e","n","o","s"," ","a","i","r","e","s">>, <<"A","R">>>>,
      <<<<"l","i","m","a">>, <<"P","E">>>>,
      <<<<"s","a","n","t","i","a","g","o">>, <<"C","L">>>>,
      <<<<"b","o","g","o","t","a">>, <<"C","O">>>>,
      <<<<"c","a","r","a","c","a","s">>, <<"V","E">>>>,
      <<<<"c","a","i","r","o">>, <<"E","G">>>>,
      <<<<"c","a","p","e"," ","t","o","w","n">>, <<"Z","A">>>>,
      <<<<"j","o","h","a","n","n","e","s","b","u","r","g">>, <<"Z","A">>>>,
      <<<<"n","a","i","r","o","b","i">>, <<"K","E">>>>,
      <<<<"i","s","t","a","n","b","u","l">>, <<"T","R">>>>,
      <<<<"a","t","h","e","n","s">>, <<"G","R">>>>,
      <<<<"l","i","s","b","o","n">>, <<"P","T">>>>,
      <<<<"d","u","b","l","i","n">>, <<"I","E">>>>,
      <<<<"r","e","y","k","j","a","v","i","k">>, <<"I","S">>>>,
      <<<<"t","e","l"," ","a","v","i","v">>, <<"I","L">>>>,
      <<<<"d","u","b","a","i">>, <<"A","E">>>>,
      <<<<"d","o","h","a">>, <<"Q","A">>>>,
      <<<<"r","i","y","a","d","h">>, <<"S","A">>>>>>

\* the dict that literal builds: of two items with one key the later one stays
mappings ==
    [key \in {MappingItems[i][1] : i \in 1..Len(MappingItems)} |->
        LET last == CHOOSE i \in 1..Len(MappingItems) :
                        /\ MappingItems[i][1] = key
                        /\ \A j \in (i + 1)..Len(MappingItems) : MappingItems[j][1] # key
        IN MappingItems[last][2]]

\* a dict of str to str is a function; {} is the function of no key
EmptyDict == <<>>

\* d.update(e)
DictUpdate(d, e) ==
    [key \in DOMAIN d \cup DOMAIN e |-> IF key \in DOMAIN e THEN e[key] ELSE d[key]]

\* _get_country_name_mappings(city_names)
_get_country_name_mappings(city_names) ==
    [city_name \in Range(city_names) \cap DOMAIN mappings |-> mappings[city_name]]

NullTypos ==
    [city_typo |-> JNull, country_typo |-> JNull,
     phone_number_typo |-> JNull, zip_code_typo |-> JNull]

\* the test of lines 111-114 on one element of the entity list
IsValidEntity(entity) ==
    /\ entity.k = "obj"
    /\ "type" \in DOMAIN entity.v
    /\ "value" \in DOMAIN entity.v
    /\ entity.v["type"].k = "str"
    /\ entity.v["type"].v \in EntityTypes
    /\ entity.v["value"].k = "str"

\* lines 115-118 keeping the value as the completion wrote it, stripped
Validated_as_written(entity) ==
    [type |-> entity.v["type"].v, value |-> strip(entity.v["value"].v)]

Validated(entity) ==
    [type |-> entity.v["type"].v, value |-> strip(lower(entity.v["value"].v))]

RECURSIVE ValidateList(_)
ValidateList(entities) ==
    IF entities = <<>> THEN <<>>
    ELSE (IF IsValidEntity(Head(entities)) THEN <<Validated(Head(entities))>> ELSE <<>>)
         \o ValidateList(Tail(entities))

\* lines 108-118.  Iterating a str yields its characters and iterating a
\* dict its keys, none of them a dict; None and a number are not iterable.
validated_entities(entities) ==
    CASE entities.k = "list" -> Ok(ValidateList(entities.v))
      [] entities.k \in {"str", "obj"} -> Ok(<<>>)
      [] OTHER -> Raise("TypeError")

\* lines 98-118: the entities and the typos of the parsed response
ParseEntityResponse(parsed_response) ==
    IF parsed_response.k = "list"
    THEN Ok([entities |-> ValidateList(parsed_response.v), typos |-> JObj(NullTypos)])
    ELSE IF parsed_response.k # "obj" THEN Raise("AttributeError")
         ELSE LET v == validated_entities(JGet(parsed_response, "entities", JList(<<>>)))
              IN IF v.exc # "none" THEN v
                 ELSE Ok([entities |-> v.val,
                          typos |-> JGet(parsed_response, "typos", JObj(EmptyDict))])

\* the test of line 123 taking the country entities with the cities
IsCity_or_country(e) == e.type \in {CityT, CountryT}
IsCity(e) == e.type = CityT
IsCountry(e) == e.type = CountryT

\* [e["value"] for e in entities]
Values(entities) == [i \in 1..Len(entities) |-> entities[i].value]

(***************************************************************************)
(* The geocoder.  A request ends in one of GeoFailures, which              *)
(* _geocode_city catches, or "ok" with the list of places of the body.     *)
(* A place is [class, type, addresstype, display_name, address], address   *)
(* a dict that may lack country_code or hold null for it (None.upper()     *)
(* raises, which _geocode_city catches).                                   *)
(***************************************************************************)
GeoFailures == {"conn_error", "timeout", "http_error", "bad_body"}

GeoFailed(kind) == [kind |-> kind, data |-> <<>>]
GeoPlaces(data) == [kind |-> "ok", data |-> data]

\* the empty dict _geocode_city returns when it has no accepted place
NoPlace == [found |-> FALSE, city |-> <<>>, country_code |-> <<>>]

\* lines 194-195
PlaceAccepted(place) ==
    \/ place.class = "place" /\ place.type \in {"city", "town", "village"}
    \/ /\ place.class = "boundary"
       /\ place.type = "administrative"
       /\ place.addresstype \in {"city", "province"}

\* _geocode_city, given how its request ended: lines 183-208
_geocode_city(geo) ==
    IF geo.kind # "ok" \/ geo.data = <<>> THEN NoPlace
    ELSE LET place == geo.data[1]
             country_code == JGet(place.address, "country_code", JStr(<<>>))
         IN IF PlaceAccepted(place) /\ country_code.k = "str"
            THEN [found |-> TRUE,
                  city |-> BeforeComma(place.display_name),
                  country_code |-> upper(country_code.v)]
            ELSE NoPlace

\* the loop of _get_country_codes over the gathered results, from position i
\* lines 163-166 giving up at the first city that has no accepted place
RECURSIVE CountryCodesFrom_until_failure(_, _, _, _)
CountryCodesFrom_until_failure(city_names, results, i, country_map) ==
    IF i > Len(results) \/ ~results[i].found THEN country_map
    ELSE CountryCodesFrom_until_failure(city_names, results, i + 1,
            DictUpdate(country_map,
                       [key \in {lower(city_names[i])} |-> results[i].country_code]))

RECURSIVE CountryCodesFrom(_, _, _, _)
CountryCodesFrom(city_names, results, i, country_map) ==
    IF i > Len(results) THEN country_map
    ELSE CountryCodesFrom(city_names, results, i + 1,
            IF results[i].found
            THEN DictUpdate(country_map,
                            [key \in {lower(city_names[i])} |-> results[i].country_code])
            ELSE country_map)

\* lines 163-168 pairing the successful results, in order, with the first
\* city names
_get_country_codes_of_successes(city_names, results) ==
    CountryCodesFrom(city_names, SelectSeq(results, LAMBDA r : r.found), 1, EmptyDict)

\* _get_country_codes, given the gathered results: lines 163-168
_get_country_codes(city_names, results) ==
    CountryCodesFrom(city_names, results, 1, EmptyDict)

\* lines 120-140 with the two updates of the city part in the other order:
\* the static table first, the geocoder's codes over it
MergeCountryMap_geocoder_wins(entities, results) ==
    DictUpdate(
        DictUpdate(_get_country_name_mappings(Values(SelectSeq(entities, IsCity))),
                   _get_country_codes(Values(SelectSeq(entities, IsCity)), results)),
        _get_country_name_mappings(Values(SelectSeq(entities, IsCountry))))

\* lines 120-140: the country map of the LLM path, results being what the
\* geocoding of the city names gathered (<<>> when there is no city)
MergeCountryMap(entities, results) ==
    LET city_names == Values(SelectSeq(entities, IsCity))
        country_names == Values(SelectSeq(entities, IsCountry))
        from_cities ==
            IF city_names # <<>>
            THEN DictUpdate(_get_country_codes(city_names, results),
                            _get_country_name_mappings(city_names))
            ELSE EmptyDict
    IN IF country_names # <<>>
       THEN DictUpdate(from_cities, _get_country_name_mappings(country_names))
       ELSE from_cities

(***************************************************************************)
(* The regex fallback of entity extraction.                                *)
(***************************************************************************)
\* [A-Z][a-z]+(?:\s+[A-Z][a-z]+)*
CityWords == ReCat(<<CapitalizedWord, ReStar(ReCat(<<Spaces1, CapitalizedWord>>))>>)

\* \bin\s+(...) and \bto\s+(...)
CityPatterns ==
    <<ReCat(<<ReWb, ReStr(<<"i","n">>), Spaces1, ReGrp(1, CityWords)>>),
      ReCat(<<ReWb, ReStr(<<"t","o">>), Spaces1, ReGrp(1, CityWords)>>)>>

city_phrases ==
    {<<"N","e","w"," ","Y","o","r","k"," ","C","i","t","y">>,
     <<"N","e","w"," ","Y","o","r","k">>,
     <<"L","o","s"," ","A","n","g","e","l","e","s">>,
     <<"S","a","n"," ","F","r","a","n","c","i","s","c","o">>,
     <<"L","a","s"," ","V","e","g","a","s">>,
     <<"M","i","a","m","i">>,
     <<"C","h","i","c","a","g","o">>,
     <<"B","o","s","t","o","n">>,
     <<"S","e","a","t","t","l","e">>,
     <<"P","a","r","i","s">>,
     <<"L","o","n","d","o","n">>,
     <<"R","o","m","e">>,
     <<"B","a","r","c","e","l","o","n","a">>,
     <<"A","m","s","t","e","r","d","a","m">>,
     <<"B","e","r","l","i","n">>,
     <<"T","o","k","y","o">>,
     <<"S","y","d","n","e","y">>,
     <<"D","u","b","a","i">>,
     <<"I","s","t","a","n","b","u","l">>}

\* _extract_city_candidates_fallback: a set
_extract_city_candidates_fallback(text) ==
    {strip(m) : m \in {c \in Range(ReFindall(CityPatterns[1], text))
                              \cup Range(ReFindall(CityPatterns[2], text)) :
                          Len(strip(c)) > 1}}
    \cup {phrase \in city_phrases : Contains(lower(text), lower(phrase))}

hotel_keywords ==
    {<<"h","o","t","e","l">>,
     <<"i","n","n">>,
     <<"r","e","s","o","r","t">>,
     <<"l","o","d","g","e">>,
     <<"h","o","s","t","e","l">>,
     <<"m","a","r","r","i","o","t","t">>,
     <<"h","i","l","t","o","n">>,
     <<"h","y","a","t","t">>,
     <<"f","o","u","r"," ","s","e","a","s","o","n","s">>,
     <<"c","h","a","p","t","e","r"," ","r","o","m","a">>}

chapter_roma == <<"c","h","a","p","t","e","r"," ","r","o","m","a">>

\* _extract_hotels_fallback: only the keyword "chapter roma" appends a hotel
_extract_hotels_fallback(text) ==
    LET normalized == normalize_text(text)
    IN IF \E keyword \in hotel_keywords :
              /\ Contains(normalized, keyword)
              /\ keyword = chapter_roma
              /\ Contains(normalized, chapter_roma)
       THEN <<<<"C","h","a","p","t","e","r"," ","R","o","m","a">>>>
       ELSE <<>>

\* _extract_restaurants_fallback: the loop body is pass
_extract_restaurants_fallback(text) == <<>>

\* the loop of _validate_cities_fallback over the gathered results: a dict
\* keyed by the geocoder's place name, in order of first insertion
RECURSIVE ValidatedFrom(_, _, _)
ValidatedFrom(results, i, validated) ==
    IF i > Len(results) THEN validated
    ELSE ValidatedFrom(results, i + 1,
            IF ~results[i].found THEN validated
            ELSE IF \E j \in 1..Len(validated) : validated[j].city = results[i].city
                 THEN [j \in 1..Len(validated) |->
                          IF validated[j].city = results[i].city
                          THEN [validated[j] EXCEPT !.country_code = results[i].country_code]
                          ELSE validated[j]]
                 ELSE Append(validated, [city |-> results[i].city,
                                         country_code |-> results[i].country_code]))

_validate_cities_fallback(results) == ValidatedFrom(results, 1, <<>>)

\* country_map[city] = country_code: the key as the geocoder wrote the place
RECURSIVE FallbackMapFrom_place_keys(_, _, _)
FallbackMapFrom_place_keys(validated, i, country_map) ==
    IF i > Len(validated) THEN country_map
    ELSE FallbackMapFrom_place_keys(validated, i + 1,
            DictUpdate(country_map,
                       [key \in {validated[i].city} |-> validated[i].country_code]))

\* country_map[city.lower()] = country_code, for the items of validated in order
RECURSIVE FallbackMapFrom(_, _, _)
FallbackMapFrom(validated, i, country_map) ==
    IF i > Len(validated) THEN country_map
    ELSE FallbackMapFrom(validated, i + 1,
            DictUpdate(country_map,
                       [key \in {lower(validated[i].city)} |-> validated[i].country_code]))

\* _fallback_extract_entities, given what the geocoding of the candidates
\* gathered (<<>> when there is no candidate): lines 213-235
_fallback_extract_entities(text, results) ==
    LET validated_cities == _validate_cities_fallback(results)
        hotels == _extract_hotels_fallback(text)
        restaurants == _extract_restaurants_fallback(text)
    IN [entities |->
            [i \in 1..Len(validated_cities) |->
                [type |-> CityT, value |-> lower(validated_cities[i].city)]]
            \o [i \in 1..Len(hotels) |-> [type |-> HotelT, value |-> lower(hotels[i])]]
            \o [i \in 1..Len(restaurants) |->
                    [type |-> RestaurantT, value |-> lower(restaurants[i])]],
        country_map |-> FallbackMapFrom(validated_cities, 1, EmptyDict),
        typos |-> JObj(NullTypos)]

(***************************************************************************)
(* src/logic/enrich.py                                                     *)
(*                                                                         *)
(* The emergency-number API.  A request ends in one of EmFailures, which   *)
(* _fetch_emergency_numbers catches, or "ok" with the body: has_data says  *)
(* whether the body is a dict with "data", the rest is data's member_112,  *)
(* dispatch["all"] and police["all"] (lists of str).                       *)
(***************************************************************************)
EmFailures == {"conn_error", "timeout", "http_error", "bad_body"}

EmFailed(kind) ==
    [kind |-> kind, has_data |-> FALSE, member_112 |-> FALSE,
     dispatch |-> <<>>, police |-> <<>>]
EmBody(has_data, member_112, dispatch, police) ==
    [kind |-> "ok", has_data |-> has_data, member_112 |-> member_112,
     dispatch |-> dispatch, police |-> police]

N112 == <<"1","1","2">>

NotBlank(num) == strip(num) # <<>>

\* lines 89-94: duplicates removed, order kept
RECURSIVE Unique(_)
Unique(numbers) ==
    IF numbers = <<>> THEN <<>>
    ELSE LET init == Unique(SubSeq(numbers, 1, Len(numbers) - 1))
             last == numbers[Len(numbers)]
         IN IF InList(last, init) THEN init ELSE Append(init, last)

\* [num for num in police["all"] if num.strip() and num not in numbers]
RECURSIVE PoliceNums(_, _)
PoliceNums(police, numbers) ==
    IF police = <<>> THEN <<>>
    ELSE (IF NotBlank(Head(police)) /\ ~InList(Head(police), numbers)
          THEN <<Head(police)>> ELSE <<>>)
         \o PoliceNums(Tail(police), numbers)

\* lines 55-101 without the loop of lines 89-94
_fetch_emergency_numbers_undeduplicated(em) ==
    IF em.kind # "ok" THEN <<>>
    ELSE IF ~em.has_data THEN <<>>
    ELSE LET first == IF em.member_112 THEN <<N112>> ELSE <<>>
             numbers == first \o SelectSeq(em.dispatch, NotBlank)
         IN numbers \o PoliceNums(em.police, numbers)

\* _fetch_emergency_numbers, given how its request ended: lines 55-101
_fetch_emergency_numbers(em) ==
    IF em.kind # "ok" THEN <<>>
    ELSE IF ~em.has_data THEN <<>>
    ELSE LET first == IF em.member_112 THEN <<N112>> ELSE <<>>
             numbers == first \o SelectSeq(em.dispatch, NotBlank)
         IN Unique(numbers \o PoliceNums(em.police, numbers))

\* [entity["value"] for entity in entities if entity["type"] in ["city", "country"]]
IsLocation(e) == e.type \in {CityT, CountryT}
Locations(entities) == Values(SelectSeq(entities, IsLocation))

\* set(country_map.keys()) in place of the values
CountryCodes_keys(country_map) == DOMAIN country_map

\* set(country_map.values())
CountryCodes(country_map) == {country_map[key] : key \in DOMAIN country_map}

\* lines 46-50 losing every number when one fetch returned none
EmergencyNumberSet_all_or_nothing(results) ==
    IF \E code \in DOMAIN results : results[code] = <<>>
    THEN {}
    ELSE UNION {Range(results[code]) : code \in DOMAIN results}

\* the set _get_emergency_numbers collects from the gathered results
EmergencyNumberSet(results) == UNION {Range(results[code]) : code \in DOMAIN results}

\* the lists list(a_set) can be: every order of the elements
ListsOf(S) ==
    {xs \in [1..Cardinality(S) -> S] : \A i, j \in 1..Cardinality(S) : xs[i] = xs[j] => i = j}

(***************************************************************************)
(* src/models.py and the response assembly of src/app.py                   *)
(***************************************************************************)
\* Optional[List[str]]
OptionalStrList(x) ==
    \/ x.k = "null"
    \/ x.k = "list" /\ \A i \in 1..Len(x.v) : x.v[i].k = "str"

TypoFields == {"city_typo", "country_typo", "phone_number_typo", "zip_code_typo"}
EnrichmentFields == {"local_emergency_numbers"} \cup TypoFields

\* Enrichment(**enrichment_data): a missing field is None, an unknown key is
\* ignored, a value of the wrong type is a ValidationError
Enrichment(enrichment_data) ==
    LET field(f) == IF f \in DOMAIN enrichment_data THEN enrichment_data[f] ELSE JNull
    IN IF /\ OptionalStrList(field("local_emergency_numbers"))
          /\ \A f \in TypoFields : OptionalStr(field(f))
       THEN Ok(JObj([f \in EnrichmentFields |-> field(f)]))
       ELSE Raise("ValidationError")

\* enrichment_data.update(typo_data).  dict.update takes a dict or an
\* iterable of pairs: the empty list and the empty str change nothing, the
\* characters of a str are no pairs (ValueError), None and a number are
\* not iterable (TypeError).  The typos lists of this model are empty.
UpdateWithTypos(enrichment_data, typo_data) ==
    CASE typo_data.k = "obj" -> Ok(DictUpdate(enrichment_data, typo_data.v))
      [] typo_data.k \in {"str", "list"} ->
            IF typo_data.v = <<>> THEN Ok(enrichment_data) ELSE Raise("ValueError")
      [] OTHER -> Raise("TypeError")

(***************************************************************************)
(* src/app.py: exceptions and the exception handlers.                      *)
(***************************************************************************)
InternalError == <<"I","n","t","e","r","n","a","l","E","r","r","o","r">>
BadRequest == <<"B","a","d","R","e","q","u","e","s","t">>
InternalDetail == <<"A","n"," ","i","n","t","e","r","n","a","l"," ","e","r","r","o","r"," ","o","c","c","u","r","r","e","d">>
UnexpectedDetail == <<"A","n"," ","u","n","e","x","p","e","c","t","e","d"," ","e","r","r","o","r"," ","o","c","c","u","r","r","e","d">>

\* the messages of the exceptions the steps raise
ExcMessage ==
    [ValueError |-> <<"d","i","c","t","i","o","n","a","r","y"," ","u","p","d","a","t","e"," ","s","e","q","u","e","n","c","e"," ","e","l","e","m","e","n","t"," ","#","0"," ","h","a","s"," ","l","e","n","g","t","h"," ","1",";"," ","2"," ","i","s"," ","r","e","q","u","i","r","e","d">>,
     ValidationError |-> <<"1"," ","v","a","l","i","d","a","t","i","o","n"," ","e","r","r","o","r">>,
     TypeError |-> <<"o","b","j","e","c","t"," ","i","s"," ","n","o","t"," ","i","t","e","r","a","b","l","e">>,
     AttributeError |-> <<"o","b","j","e","c","t"," ","h","a","s"," ","n","o"," ","a","t","t","r","i","b","u","t","e">>,
     RequestValidationError |-> <<"F","i","e","l","d"," ","r","e","q","u","i","r","e","d">>]

NoException == [class |-> "none", status_code |-> 0, detail |-> JNull, message |-> <<>>]

Exception(class) ==
    [class |-> class, status_code |-> 0, detail |-> JNull, message |-> ExcMessage[class]]

\* ValueError("OPENAI_API_KEY environment variable not set")
ApiKeyError ==
    [class |-> "ValueError", status_code |-> 0, detail |-> JNull,
     message |-> <<"O","P","E","N","A","I","_","A","P","I","_","K","E","Y"," ","e","n","v","i","r","o","n","m","e","n","t"," ","v","a","r","i","a","b","l","e"," ","n","o","t"," ","s","e","t">>]

\* HTTPException(status_code=..., detail=...)
HTTPException(status_code, detail) ==
    [class |-> "HTTPException", status_code |-> status_code, detail |-> detail,
     message |-> <<>>]

\* lines 87-93 with str(e) as the detail
normalize_except_str(e) ==
    HTTPException(500, JObj([error |-> JStr(InternalError), detail |-> JStr(e.message)]))

\* the except clause of normalize_message: lines 87-93
normalize_except(e) ==
    HTTPException(500, JObj([error |-> JStr(InternalError), detail |-> JStr(InternalDetail)]))

\* lines 96-102
validation_exception_handler(exc) ==
    [status |-> 400, body |-> JObj([error |-> JStr(BadRequest), detail |-> JStr(exc.message)])]

\* lines 105-111
http_exception_handler(exc) == [status |-> exc.status_code, body |-> exc.detail]

\* lines 114-120
general_exception_handler(exc) ==
    [status |-> 500,
     body |-> JObj([error |-> JStr(InternalError), detail |-> JStr(UnexpectedDetail)])]

\* FastAPI's own handler of a request that fails validation: 422 and the
\* list of errors under "detail"
request_validation_exception_handler(exc) ==
    [status |-> 422, body |-> JObj([detail |-> JList(<<JStr(exc.message)>>)])]

\* the classes of an exception, most specific first (its __mro__)
Mro(class) ==
    CASE class = "RequestValidationError" ->
            <<"RequestValidationError", "ValidationException", "Exception">>
      [] class = "HTTPException" -> <<"HTTPException", "StarletteHTTPException", "Exception">>
      [] class = "ValidationError" -> <<"ValidationError", "ValueError", "Exception">>
      [] OTHER -> <<class, "Exception">>

\* the handlers of app: those FastAPI() installs, then those app.py adds
exception_handlers ==
    [RequestValidationError |-> "request_validation_exception_handler",
     ValidationError |-> "validation_exception_handler",
     HTTPException |-> "http_exception_handler",
     Exception |-> "general_exception_handler"]

RECURSIVE LookupHandler(_, _)
LookupHandler(mro, i) ==
    IF mro[i] \in DOMAIN exception_handlers THEN exception_handlers[mro[i]]
    ELSE LookupHandler(mro, i + 1)

\* the response to an exception that leaves a route: the handler of the
\* first class of its __mro__ that has one
HandleException(exc) ==
    LET handler == LookupHandler(Mro(exc.class), 1)
    IN CASE handler = "request_validation_exception_handler" ->
                request_validation_exception_handler(exc)
         [] handler = "validation_exception_handler" -> validation_exception_handler(exc)
         [] handler = "http_exception_handler" -> http_exception_handler(exc)
         [] OTHER -> general_exception_handler(exc)

\* the response when a step of normalize_message raises e
ErrorResponse(e) == HandleException(normalize_except(e))

\* FastAPI answers 200 with the model a route returns
Answer200(model) ==
    IF model.exc # "none" THEN model ELSE Ok([status |-> 200, body |-> model.val])

\* line 74: Enrichment(**enrichment_data) if any(enrichment_data.values()) else None
BuildEnrichment(merged) ==
    IF merged.exc # "none" THEN merged
    ELSE IF AnyValue(merged.val) THEN Enrichment(merged.val) ELSE Ok(JNull)

\* a response model that normalises the id it is given
NormalizeOut_upper_id(message_id, category_, contact_, entities, enrichment) ==
    IF category_ \in Categories
    THEN Ok([message_id |-> upper(message_id),
             category |-> category_,
             contact |-> contact_,
             entities |-> entities,
             enrichment |-> enrichment])
    ELSE Raise("ValidationError")

\* NormalizeOut(...): category is a Literal of the three categories
NormalizeOut(message_id, category_, contact_, entities, enrichment) ==
    IF category_ \in Categories
    THEN Ok([message_id |-> message_id,
             category |-> category_,
             contact |-> contact_,
             entities |-> entities,
             enrichment |-> enrichment])
    ELSE Raise("ValidationError")

\* lines 77-85: the response model built and returned, unless a step raised
BuildResponse(message_id, category_, contact_, entities, enrichment) ==
    IF enrichment.exc # "none" THEN enrichment
    ELSE Answer200(NormalizeOut(message_id, category_, contact_, entities, enrichment.val))

\* lines 71-85: the typos merged in, and the response built
RespondOk(message_id, category_, contact_, entities, enrichment_data_, typo_data_) ==
    BuildResponse(message_id, category_, contact_,
                  IF entities # <<>> THEN JList(entities) ELSE JNull,
                  BuildEnrichment(UpdateWithTypos(enrichment_data_, typo_data_)))

(***************************************************************************)
(* The inputs: the requests clients send and what the three outbound       *)
(* services answer.                                                        *)
(***************************************************************************)
Text1 == <<"I","'","m"," ","J","o","h","n"," ","S","m","i","t","h",","," ","l","o","s","t"," ","p","a","s","s","p","o","r","t"," ","i","n"," ","P","a","r","i","s"," ","t","o","d","a","y","."," ","C","a","l","l"," ","(","9","1","7",")"," ","5","5","5","-","1","2","3","4">>
Text2 == <<"G","o","i","n","g"," ","t","o"," ","R","o","m","e"," ","a","n","d"," ","B","e","r","l","i","n"," ","t","o","m","o","r","r","o","w",","," ","a","t"," ","C","h","a","p","t","e","r"," ","R","o","m","a","."," ","z","i","p"," ","1","0","0","0","1"," ","a","@","b",".","c","o">>
Text3 == <<"A","n","y"," ","d","i","n","n","e","r"," ","i","d","e","a","s","?">>

Texts == {Text1, Text2, Text3}
MessageIds == {<<"m","1">>, <<"m","2">>}

\* body says how the JSON body of a POST /normalize is formed
Req(endpoint, body, message_id, text) ==
    [endpoint |-> endpoint, body |-> body, message_id |-> message_id, text |-> text]

NoRequest == Req("none", "none", <<>>, <<>>)
HealthzRequest == Req("/healthz", "none", <<>>, <<>>)
InvalidBodies == {"invalid_json", "missing_text", "wrong_types"}
InvalidRequests == {Req("/normalize", b, <<"m","1">>, <<>>) : b \in InvalidBodies}
ValidRequests ==
    {Req("/normalize", "valid", <<"m","1">>, Text1), Req("/normalize", "valid", <<"m","2">>, Text1),
     Req("/normalize", "valid", <<"m","2">>, Text2), Req("/normalize", "valid", <<"m","1">>, Text3)}

\* the largest number of entities in a completion built from EntityPool
MaxEntities == 2

Fenced(value) == <<Piece("fence_json"), Piece("ws"), PJson(value), Piece("ws"), Piece("fence")>>
PlainFenced(value) == <<Piece("fence"), Piece("ws"), PJson(value), Piece("ws"), Piece("fence")>>
Prose(value) == <<Piece("text"), Piece("ws"), PJson(value)>>

\* contents the contact prompt is answered with
ContactContents ==
    {<<Piece("ws"), PJson(JObj([first_name |-> JStr(<<"J","o","h","n">>), last_name |-> JNull,
                                email |-> JStr(<<"j","o","h","n","@","x",".","i","o">>), phone |-> JStr(<<"(","9","1","7",")"," ","5","5","5","-","1","2","3","4">>),
                                zip |-> JStr(<<"1","0","0","0","1">>)]))>>,
     Fenced(JObj([first_name |-> JStr(<<"A","n","n">>), email |-> JStr(<<"n","o","n","e">>),
                  phone |-> JStr(<<"5","5","5","-","1","2","3","4">>), zip |-> JStr(<<"1","2","3","4">>)])),
     PlainFenced(JObj([first_name |-> JNull, last_name |-> JNull, email |-> JNull,
                       phone |-> JNull, zip |-> JNull])),
     Prose(JObj([first_name |-> JStr(<<"J","o","h","n">>)])),
     <<PJson(JList(<<JStr(<<"J","o","h","n">>)>>))>>,
     <<PJson(JObj([first_name |-> JStr(<<"J","o","h","n">>), phone |-> JNum(5551234)]))>>,
     <<PJson(JObj([first_name |-> JList(<<JStr(<<"J","o","h","n">>)>>), last_name |-> JStr(<<"A","n","n">>)]))>>,
     <<PJson(JObj([last_name |-> JStr(<<"A","n","n">>), phone |-> JStr(<<>>)]))>>}

ContactOutcomes ==
    {LLMFailed(kind) : kind \in LLMFailures} \cup {LLMContent(c) : c \in ContactContents}

\* contents the category prompt is answered with
CategoryContents ==
    {<<"u","r","g","e","n","t">>, <<" ","H","i","g","h","_","R","i","s","k","\n">>, <<"B","A","S","E">>, <<"u","r","g","e","n","t","!">>, <<>>}

CategoryOutcomes ==
    {LLMFailed(kind) : kind \in LLMFailures} \cup {LLMContent(c) : c \in CategoryContents}

\* entities as the entity prompt is answered with them
JEntity(type, value) == JObj([type |-> JStr(type), value |-> JStr(value)])

CityParis == JEntity(CityT, <<" ","P","a","r","i","s">>)
CityLyon == JEntity(CityT, <<"l","y","o","n">>)
CountryFrance == JEntity(CountryT, <<"F","r","a","n","c","e">>)
CountryNarnia == JEntity(CountryT, <<"n","a","r","n","i","a">>)
HotelRitz == JEntity(HotelT, <<"R","i","t","z">>)
Museum == JEntity(<<"m","u","s","e","u","m">>, <<"l","o","u","v","r","e">>)
CityNumber == JObj([type |-> JStr(CityT), value |-> JNum(75)])

EntityPool == {CityParis, CityLyon}

\* every list of at most n elements of S
SeqsUpTo(S, n) == UNION {[1..m -> S] : m \in 0..n}

EntityLists ==
    SeqsUpTo(EntityPool, MaxEntities)
    \cup {<<CountryFrance>>, <<CountryNarnia>>, <<CityLyon, CountryFrance>>,
          <<HotelRitz, Museum, CityNumber>>}

TyposOf(city_typo) ==
    JObj([city_typo |-> city_typo, country_typo |-> JNull,
          phone_number_typo |-> JNull, zip_code_typo |-> JNull])

EntityReply(entities, typos) == JObj([entities |-> entities, typos |-> typos])

\* contents the entity prompt is answered with
EntityContents ==
    {<<PJson(EntityReply(JList(es), TyposOf(JNull)))>> : es \in EntityLists}
    \cup {<<PJson(EntityReply(JList(<<CityParis>>), typos))>> :
             typos \in {TyposOf(JStr(<<"l","n","d","o","n"," ","-",">"," ","l","o","n","d","o","n">>)), TyposOf(JList(<<JStr(<<"l","n","d","o","n">>)>>)), JNull, JStr(<<"n","o","n","e">>),
                        JList(<<>>),
                        JObj([local_emergency_numbers |-> JNull]),
                        JObj([note |-> JStr(<<"n","o","n","e">>)]),
                        JObj([local_emergency_numbers |-> JList(<<>>),
                              city_typo |-> JStr(<<"l","n","d","o","n">>)]),
                        JObj([local_emergency_numbers |-> JList(<<JStr(<<"0","0","0">>)>>),
                              zip_code_typo |-> JStr(<<"1","2","3","4">>)])}}
    \cup {Fenced(EntityReply(JList(<<HotelRitz>>), TyposOf(JNull))),
          Prose(EntityReply(JList(<<CityParis>>), TyposOf(JNull))),
          <<PJson(JList(<<CityLyon, HotelRitz>>))>>,
          <<PJson(JObj([typos |-> TyposOf(JStr(<<"l","n","d","o","n"," ","-",">"," ","l","o","n","d","o","n">>))]))>>,
          <<PJson(EntityReply(JNull, TyposOf(JNull)))>>,
          <<PJson(JStr(<<"n","o","n","e">>))>>}

EntityOutcomes ==
    {LLMFailed(kind) : kind \in LLMFailures} \cup {LLMContent(c) : c \in EntityContents}

Place(class, type, addresstype, display_name, address) ==
    [class |-> class, type |-> type, addresstype |-> addresstype,
     display_name |-> display_name, address |-> address]

\* what the geocoder answers a request with
GeoOutcomes ==
    {GeoFailed(kind) : kind \in GeoFailures}
    \cup {GeoPlaces(<<>>),
          GeoPlaces(<<Place("tourism", "hotel", "tourism", <<"R","i","t","z"," ","P","a","r","i","s",","," ","P","l","a","c","e"," ","V","e","n","d","o","m","e",","," ","F","r","a","n","c","e">>,
                            JObj([country_code |-> JStr(<<"f","r">>)]))>>),
          GeoPlaces(<<Place("place", "city", "city", <<"L","y","o","n",","," ","R","h","o","n","e",","," ","F","r","a","n","c","e">>,
                            JObj([country_code |-> JStr(<<"f","r">>)]))>>),
          GeoPlaces(<<Place("boundary", "administrative", "city", <<"B","e","r","l","i","n",","," ","D","e","u","t","s","c","h","l","a","n","d">>,
                            JObj([country_code |-> JStr(<<"d","e">>)]))>>),
          GeoPlaces(<<Place("boundary", "administrative", "state", <<"B","e","r","l","i","n",","," ","D","e","u","t","s","c","h","l","a","n","d">>,
                            JObj([country_code |-> JStr(<<"d","e">>)]))>>),
          GeoPlaces(<<Place("place", "town", "town", <<"L","y","o","n",","," ","R","h","o","n","e",","," ","F","r","a","n","c","e">>,
                            JObj([country_code |-> JNull]))>>)}

\* what the emergency-number API answers a request with
EmOutcomes ==
    {EmFailed(kind) : kind \in EmFailures}
    \cup {EmBody(FALSE, FALSE, <<>>, <<>>),
          EmBody(TRUE, TRUE, <<N112, <<" ">>>>, <<<<"1","7">>, N112>>),
          EmBody(TRUE, FALSE, <<<<"9","1","1">>, <<"9","1","1">>>>, <<<<"9","1","1">>, <<>>>>),
          EmBody(TRUE, FALSE, <<>>, <<>>)}

(***************************************************************************)
(* The state: the environment, the request being handled, the local        *)
(* variables of normalize_message and of the steps it awaits, the          *)
(* outbound requests in flight, and the response.                          *)
(***************************************************************************)
VARIABLES
    api_key,          \* whether OPENAI_API_KEY is set
    served,           \* whether the process answered a request before this one
    pc,               \* where the handler is: "idle", "contact", "entities",
                      \* "geocode", "categorize", "enrich", "emergency", "done"
    request,          \* the request being handled
    llm,              \* how the chat-completion call of the last LLM step ended
    contact,          \* app.py: contact
    path,             \* which path extract_entities took: "llm" or "fallback"
    entities_data,    \* app.py: entities_data
    country_map,      \* app.py: country_map
    typo_data,        \* app.py: typo_data
    geo_names,        \* the names being geocoded, one gathered task each
    geo_results,      \* [done, r] per task: whether it completed, and its result
    category,         \* app.py: category
    em_results,       \* [done, r] per country code being fetched
    enrichment_data,  \* what enrich returned
    raised,           \* the exception a step raised inside normalize_message
    response,         \* the response sent: [status, body]
    calls             \* the outbound requests issued for this request

vars ==
    <<api_key, served, pc, request, llm, contact, path, entities_data, country_map,
      typo_data, geo_names, geo_results, category, em_results, enrichment_data, raised,
      response, calls>>

NoLLM == LLMFailed("none")
NoResponse == [status |-> 0, body |-> JNull]
NoCalls == [contact |-> 0, entities |-> 0, category |-> 0, geo |-> EmptyDict, em |-> EmptyDict]
NoEnrichment == [local_emergency_numbers |-> JNull]

\* how many times each element occurs in a list
BagOf(xs) == [x \in Range(xs) |-> Cardinality({i \in 1..Len(xs) : xs[i] = x})]

PendingGeo == [done |-> FALSE, r |-> NoPlace]
PendingEm == [done |-> FALSE, r |-> <<>>]

\* the locals of a handler that has not run yet, but for a country map
\* that the module keeps from one request to the next
Fresh_keeping_country_map ==
    /\ llm' = NoLLM
    /\ contact' = JNull
    /\ path' = "none"
    /\ entities_data' = <<>>
    /\ country_map' = country_map
    /\ typo_data' = JNull
    /\ geo_names' = <<>>
    /\ geo_results' = <<>>
    /\ category' = <<>>
    /\ em_results' = EmptyDict
    /\ enrichment_data' = NoEnrichment
    /\ raised' = NoException
    /\ calls' = NoCalls

\* the locals of a handler that has not run yet: normalize_message and the
\* steps keep what they compute in local variables, and the module-level
\* names of app.py are assigned once, at import
Fresh ==
    /\ llm' = NoLLM
    /\ contact' = JNull
    /\ path' = "none"
    /\ entities_data' = <<>>
    /\ country_map' = EmptyDict
    /\ typo_data' = JNull
    /\ geo_names' = <<>>
    /\ geo_results' = <<>>
    /\ category' = <<>>
    /\ em_results' = EmptyDict
    /\ enrichment_data' = NoEnrichment
    /\ raised' = NoException
    /\ calls' = NoCalls

Init ==
    /\ api_key \in BOOLEAN
    /\ served = FALSE
    /\ pc = "idle"
    /\ request = NoRequest
    /\ llm = NoLLM
    /\ contact = JNull
    /\ path = "none"
    /\ entities_data = <<>>
    /\ country_map = EmptyDict
    /\ typo_data = JNull
    /\ geo_names = <<>>
    /\ geo_results = <<>>
    /\ category = <<>>
    /\ em_results = EmptyDict
    /\ enrichment_data = NoEnrichment
    /\ raised = NoException
    /\ response = NoResponse
    /\ calls = NoCalls

Idle == pc \in {"idle", "done"}

\* line 30: read from the environment, and used nowhere
MAX_RETRIES == 2

\* every failed request sent again as often as MAX_RETRIES says
Attempts_with_retries(kind) == IF kind = "ok" THEN 1 ELSE 1 + MAX_RETRIES

\* the requests that one call sends when it ends as kind: every call site
\* awaits client.post or client.get once and stands in no loop
Attempts(kind) == 1

\* GET /healthz: health_check, lines 34-37
\* a health check that looks for the key the steps of /normalize need
HealthCheck_needing_key ==
    /\ Idle
    /\ request' = HealthzRequest
    /\ Fresh
    /\ response' = IF api_key THEN [status |-> 200, body |-> [ok |-> TRUE]]
                   ELSE ErrorResponse(ApiKeyError)
    /\ pc' = "done"
    /\ served' = (pc = "done")
    /\ UNCHANGED api_key

HealthCheck ==
    /\ Idle
    /\ request' = HealthzRequest
    /\ Fresh
    /\ response' = [status |-> 200, body |-> [ok |-> TRUE]]
    /\ pc' = "done"
    /\ served' = (pc = "done")
    /\ UNCHANGED api_key

\* POST /normalize with a body that is not a NormalizeIn: FastAPI raises
\* RequestValidationError before normalize_message is called
RejectRequest ==
    /\ Idle
    /\ \E req \in InvalidRequests : request' = req
    /\ Fresh
    /\ response' = HandleException(Exception("RequestValidationError"))
    /\ pc' = "done"
    /\ served' = (pc = "done")
    /\ UNCHANGED api_key

\* POST /normalize with a well-formed body: normalize_message starts
AcceptRequest ==
    /\ Idle
    /\ \E req \in ValidRequests : request' = req
    /\ Fresh
    /\ response' = NoResponse
    /\ pc' = "contact"
    /\ served' = (pc = "done")
    /\ UNCHANGED api_key

\* a step raises e: the except clause of normalize_message answers
Fail(e) ==
    /\ raised' = e
    /\ response' = ErrorResponse(e)
    /\ pc' = "done"

\* line 48: Contact(**contact_data) if any(contact_data.values()) else None
BuildContact(contact_data) ==
    IF AnyValue(contact_data) THEN Contact(contact_data) ELSE Ok(JNull)

\* line 48 has raised, or has assigned contact
ContactBuilt(built) ==
    IF built.exc # "none"
    THEN /\ Fail(Exception(built.exc))
         /\ UNCHANGED contact
    ELSE /\ contact' = built.val
         /\ pc' = "entities"
         /\ UNCHANGED <<raised, response>>

\* extract_contact going to its regex fallback when the key is not set
ContactStep_fallback_without_key ==
    /\ pc = "contact"
    /\ IF ~api_key
       THEN /\ ContactBuilt(BuildContact(_fallback_extract_contact(request.text)))
            /\ UNCHANGED <<llm, calls>>
       ELSE \E out \in ContactOutcomes :
               /\ llm' = out
               /\ calls' = [calls EXCEPT !.contact = @ + Attempts(out.kind)]
               /\ ContactBuilt(BuildContact(extract_contact(request.text, out)))
    /\ UNCHANGED <<api_key, served, request, path, entities_data, country_map, typo_data,
                   geo_names, geo_results, category, em_results, enrichment_data>>

\* lines 46-48: await extract_contact, then contact
ContactStep ==
    /\ pc = "contact"
    /\ IF ~api_key
       THEN /\ Fail(ApiKeyError)
            /\ UNCHANGED <<llm, contact, calls>>
       ELSE \E out \in ContactOutcomes :
               /\ llm' = out
               /\ calls' = [calls EXCEPT !.contact = @ + Attempts(out.kind)]
               /\ ContactBuilt(BuildContact(extract_contact(request.text, out)))
    /\ UNCHANGED <<api_key, served, request, path, entities_data, country_map, typo_data,
                   geo_names, geo_results, category, em_results, enrichment_data>>

\* lines 68-118 with content that is not JSON read as an empty answer
ParsedEntities_lenient(out) ==
    IF out.kind # "ok" THEN Raise("HTTPError")
    ELSE IF json_loads(strip_code_fence(strip_doc(out.content))).exc # "none"
         THEN Ok([entities |-> <<>>, typos |-> JObj(EmptyDict)])
         ELSE ParseEntityResponse(json_loads(strip_code_fence(strip_doc(out.content))).val)

\* lines 68-118 of extract_entities: the completion parsed.  Any exception
\* on the way (JSONDecodeError included) leads to the fallback.
ParsedEntities(out) ==
    IF out.kind # "ok" THEN Raise("HTTPError")
    ELSE LET parsed == json_loads(strip_code_fence(strip_doc(out.content)))
         IN IF parsed.exc # "none" THEN parsed ELSE ParseEntityResponse(parsed.val)

\* the tasks of a gather start: one geocoding request per name
StartGeocoding(names, kind) ==
    /\ geo_names' = names
    /\ geo_results' = [i \in 1..Len(names) |-> PendingGeo]
    /\ calls' = [calls EXCEPT !.entities = @ + Attempts(kind), !.geo = BagOf(names)]
    /\ pc' = "geocode"

\* lines 51-56: await extract_entities, up to its first await of a gather
\* extract_entities sending its completion request again when it failed,
\* where the code calls the regex fallback
EntityStep_retrying ==
    /\ pc = "entities"
    /\ IF ~api_key
       THEN /\ Fail(ApiKeyError)
            /\ UNCHANGED <<llm, path, entities_data, country_map, typo_data, geo_names,
                           geo_results, calls>>
       ELSE /\ UNCHANGED <<raised, response>>
            /\ \E out \in EntityOutcomes :
                  LET parsed == ParsedEntities(out)
                  IN /\ llm' = out
                     /\ IF parsed.exc = "none"
                        THEN LET city_names == Values(SelectSeq(parsed.val.entities, IsCity))
                             IN /\ path' = "llm"
                                /\ entities_data' = parsed.val.entities
                                /\ typo_data' = parsed.val.typos
                                /\ IF city_names # <<>>
                                   THEN /\ StartGeocoding(city_names, out.kind)
                                        /\ UNCHANGED country_map
                                   ELSE /\ country_map' =
                                              MergeCountryMap(parsed.val.entities, <<>>)
                                        /\ calls' = [calls EXCEPT
                                                        !.entities = @ + Attempts(out.kind)]
                                        /\ pc' = "categorize"
                                        /\ UNCHANGED <<geo_names, geo_results>>
                        ELSE /\ calls' = [calls EXCEPT !.entities = @ + Attempts(out.kind)]
                             /\ pc' = "entities"
                             /\ UNCHANGED <<path, entities_data, country_map, typo_data,
                                            geo_names, geo_results>>
    /\ UNCHANGED <<api_key, served, request, contact, category, em_results, enrichment_data>>

EntityStep ==
    /\ pc = "entities"
    /\ IF ~api_key
       THEN /\ Fail(ApiKeyError)
            /\ UNCHANGED <<llm, path, entities_data, country_map, typo_data, geo_names,
                           geo_results, calls>>
       ELSE /\ UNCHANGED <<raised, response>>
            /\ \E out \in EntityOutcomes :
                  LET parsed == ParsedEntities(out)
                  IN /\ llm' = out
                     /\ IF parsed.exc = "none"
                        THEN LET city_names == Values(SelectSeq(parsed.val.entities, IsCity))
                             IN /\ path' = "llm"
                                /\ entities_data' = parsed.val.entities
                                /\ typo_data' = parsed.val.typos
                                /\ IF city_names # <<>>
                                   THEN /\ StartGeocoding(city_names, out.kind)
                                        /\ UNCHANGED country_map
                                   ELSE /\ country_map' =
                                              MergeCountryMap(parsed.val.entities, <<>>)
                                        /\ calls' = [calls EXCEPT
                                                        !.entities = @ + Attempts(out.kind)]
                                        /\ pc' = "categorize"
                                        /\ UNCHANGED <<geo_names, geo_results>>
                        ELSE LET candidates == _extract_city_candidates_fallback(request.text)
                                 fallback == _fallback_extract_entities(request.text, <<>>)
                             IN /\ path' = "fallback"
                                /\ IF candidates # {}
                                   THEN /\ \E order \in ListsOf(candidates) :
                                              StartGeocoding(order, out.kind)
                                        /\ UNCHANGED <<entities_data, country_map, typo_data>>
                                   ELSE /\ entities_data' = fallback.entities
                                        /\ country_map' = fallback.country_map
                                        /\ typo_data' = fallback.typos
                                        /\ calls' = [calls EXCEPT
                                                        !.entities = @ + Attempts(out.kind)]
                                        /\ pc' = "categorize"
                                        /\ UNCHANGED <<geo_names, geo_results>>
    /\ UNCHANGED <<api_key, served, request, contact, category, em_results, enrichment_data>>

\* one geocoding request of the gather ends: _geocode_city returns
GeocodeReturns ==
    /\ pc = "geocode"
    /\ \E i \in 1..Len(geo_results), out \in GeoOutcomes :
          /\ ~geo_results[i].done
          /\ geo_results' = [geo_results EXCEPT ![i] = [done |-> TRUE, r |-> _geocode_city(out)]]
          /\ calls' = [calls EXCEPT !.geo[geo_names[i]] = @ + Attempts(out.kind) - 1]
    /\ UNCHANGED <<api_key, served, pc, request, llm, contact, path, entities_data, country_map,
                   typo_data, geo_names, category, em_results, enrichment_data, raised,
                   response>>

GeoGathered == [i \in 1..Len(geo_results) |-> geo_results[i].r]

\* the gather returns and extract_entities runs to its return
GeocodeGathered ==
    /\ pc = "geocode"
    /\ \A i \in 1..Len(geo_results) : geo_results[i].done
    /\ IF path = "llm"
       THEN /\ country_map' = MergeCountryMap(entities_data, GeoGathered)
            /\ UNCHANGED <<entities_data, typo_data>>
       ELSE LET fallback == _fallback_extract_entities(request.text, GeoGathered)
            IN /\ entities_data' = fallback.entities
               /\ country_map' = fallback.country_map
               /\ typo_data' = fallback.typos
    /\ pc' = "categorize"
    /\ UNCHANGED <<api_key, served, request, llm, contact, path, geo_names, geo_results, category,
                   em_results, enrichment_data, raised, response, calls>>

\* line 60: await categorize
CategorizeStep ==
    /\ pc = "categorize"
    /\ IF ~api_key
       THEN /\ Fail(ApiKeyError)
            /\ UNCHANGED <<llm, category, calls>>
       ELSE /\ \E out \in CategoryOutcomes :
                  /\ llm' = out
                  /\ category' = categorize(request.text, out)
                  /\ calls' = [calls EXCEPT !.category = @ + Attempts(out.kind)]
            /\ pc' = "enrich"
            /\ UNCHANGED <<raised, response>>
    /\ UNCHANGED <<api_key, served, request, contact, path, entities_data, country_map, typo_data,
                   geo_names, geo_results, em_results, enrichment_data>>

\* lines 71-85 after enrich returned enrichment: respond, or raise
Respond(enrichment) ==
    LET built == RespondOk(request.message_id, category, contact, entities_data,
                           enrichment, typo_data)
    IN /\ enrichment_data' = enrichment
       /\ IF built.exc # "none"
          THEN Fail(Exception(built.exc))
          ELSE /\ response' = built.val
               /\ pc' = "done"
               /\ UNCHANGED raised

\* lines 63-69: await enrich, up to its await of the gather; with no city
\* and no country among the entities enrich returns at once
EnrichStep ==
    /\ pc = "enrich"
    /\ IF Locations(entities_data) = <<>>
       THEN /\ Respond(NoEnrichment)
            /\ UNCHANGED <<em_results, calls>>
       ELSE /\ em_results' = [code \in CountryCodes(country_map) |-> PendingEm]
            /\ calls' = [calls EXCEPT !.em = [code \in CountryCodes(country_map) |-> 1]]
            /\ pc' = "emergency"
            /\ UNCHANGED <<enrichment_data, raised, response>>
    /\ UNCHANGED <<api_key, served, request, llm, contact, path, entities_data, country_map,
                   typo_data, geo_names, geo_results, category>>

\* one emergency-number request of the gather ends
EmergencyReturns ==
    /\ pc = "emergency"
    /\ \E code \in DOMAIN em_results, out \in EmOutcomes :
          /\ ~em_results[code].done
          /\ em_results' = [em_results EXCEPT
                               ![code] = [done |-> TRUE, r |-> _fetch_emergency_numbers(out)]]
          /\ calls' = [calls EXCEPT !.em[code] = @ + Attempts(out.kind) - 1]
    /\ UNCHANGED <<api_key, served, pc, request, llm, contact, path, entities_data, country_map,
                   typo_data, geo_names, geo_results, category, enrichment_data, raised,
                   response>>

EmGathered == [code \in DOMAIN em_results |-> em_results[code].r]

\* the response assembled without awaiting the gather of the fetches
EmergencyGathered_unawaited ==
    /\ pc = "emergency"
    /\ \E numbers \in ListsOf(EmergencyNumberSet(EmGathered)) :
          Respond([local_emergency_numbers |->
                      IF numbers = <<>> THEN JNull
                      ELSE JList([i \in 1..Len(numbers) |-> JStr(numbers[i])])])
    /\ UNCHANGED <<api_key, served, request, llm, contact, path, entities_data, country_map,
                   typo_data, geo_names, geo_results, category, em_results, calls>>

\* the gather returns, enrich returns and normalize_message runs to its end
EmergencyGathered ==
    /\ pc = "emergency"
    /\ \A code \in DOMAIN em_results : em_results[code].done
    /\ \E numbers \in ListsOf(EmergencyNumberSet(EmGathered)) :
          Respond([local_emergency_numbers |->
                      IF numbers = <<>> THEN JNull
                      ELSE JList([i \in 1..Len(numbers) |-> JStr(numbers[i])])])
    /\ UNCHANGED <<api_key, served, request, llm, contact, path, entities_data, country_map,
                   typo_data, geo_names, geo_results, category, em_results, calls>>

Next ==
    \/ HealthCheck
    \/ RejectRequest
    \/ AcceptRequest
    \/ ContactStep
    \/ EntityStep
    \/ GeocodeReturns
    \/ GeocodeGathered
    \/ CategorizeStep
    \/ EnrichStep
    \/ EmergencyReturns
    \/ EmergencyGathered

Spec == Init /\ [][Next]_vars

(***************************************************************************)
(* Scheduling.  The handler is one coroutine: whenever the call it awaits  *)
(* has ended, the event loop resumes it and it runs to its next await, and *)
(* every request of a gather that is in flight ends (it returns, fails or  *)
(* hits its timeout).  Advance is the control skeleton of the step         *)
(* actions: the handler is at a step whose awaited calls have ended, and   *)
(* it moves on.                                                            *)
(***************************************************************************)
Stages == {"idle", "contact", "entities", "geocode", "categorize", "enrich", "emergency", "done"}
Running == pc \notin {"idle", "done"}

Advance ==
    /\ Running
    /\ pc = "geocode" => \A i \in 1..Len(geo_results) : geo_results[i].done
    /\ pc = "emergency" => \A code \in DOMAIN em_results : em_results[code].done
    /\ pc' \in Stages \ {pc}

FairSpec == Spec /\ WF_pc(Advance) /\ WF_vars(GeocodeReturns) /\ WF_vars(EmergencyReturns)

(***************************************************************************)
(* Properties of the handler.  After an LLM-backed step, llm holds how the *)
(* step's completion call ended, until the next such step runs: pc says    *)
(* which step that was.                                                    *)
(***************************************************************************)
Answered == pc = "done" /\ request.endpoint = "/normalize"

\* the body is a JSON object whose fields "error" and "detail" are strings
IsErrorBody(body) ==
    /\ body.k = "obj"
    /\ {"error", "detail"} \subseteq DOMAIN body.v
    /\ body.v["error"].k = "str"
    /\ body.v["detail"].k = "str"

\* C1: a well-formed POST /normalize handled with the API key set is
\* answered 200, never 500, however the outbound calls end.
C1_WellFormedAnswered200 ==
    (Answered /\ request \in ValidRequests /\ api_key) => response.status = 200

\* C2: the category categorize returns is one of the three categories, and
\* every 200 response of POST /normalize carries it.
C2_CategoryOneOfThree ==
    /\ pc \in {"enrich", "emergency"} => category \in Categories
    /\ (Answered /\ response.status = 200) =>
          /\ response.body.category \in Categories
          /\ response.body.category = category

\* a 200 response whose classification completion was no category name
C2_Witness ==
    /\ Answered
    /\ response.status = 200
    /\ llm.kind = "ok"
    /\ lower(strip(llm.content)) \notin Categories
    /\ response.body.category = base

\* C3: a POST /normalize whose body fails validation is answered 400 with
\* an object of the string fields "error" and "detail", and no step and no
\* outbound call runs for it.
C3_InvalidBodyAnswered400 ==
    (pc = "done" /\ request \in InvalidRequests) =>
        /\ response.status = 400
        /\ IsErrorBody(response.body)
        /\ calls = NoCalls
        /\ contact = JNull /\ entities_data = <<>> /\ category = <<>>

\* C4: when a step of normalize_message raises, the response is 500, its
\* body is exactly {"error": "InternalError", "detail": a string}, the
\* detail does not hold the exception's message, and nothing of a result
\* is returned.
C4_RaisedAnswered500 ==
    raised # NoException =>
        /\ pc = "done"
        /\ response.status = 500
        /\ IsErrorBody(response.body)
        /\ DOMAIN response.body.v = {"error", "detail"}
        /\ response.body.v["error"] = JStr(InternalError)
        /\ ~Contains(response.body.v["detail"].v, raised.message)

\* dict.update(None) has raised after every step had run
C4_Witness ==
    /\ raised.class = "TypeError"
    /\ category \in Categories
    /\ response.status = 500

\* C5: when the classification call fails, categorize returns what
\* _fallback_categorize returns for the text.
C5_FailedCallFallsBack ==
    (pc = "enrich" /\ llm.kind # "ok") => category = _fallback_categorize(request.text)

\* the call timed out and the keyword heuristic said high_risk
C5_Witness ==
    /\ pc = "enrich"
    /\ llm.kind = "timeout"
    /\ category = high_risk

\* C6, as stated: when the classification completion is no category name,
\* the category is what the keyword heuristic returns for the text.
C6_UnexpectedContentFallsBack ==
    (pc = "enrich" /\ llm.kind = "ok" /\ lower(strip(llm.content)) \notin Categories)
        => category = _fallback_categorize(request.text)

\* C6, amended: when the classification completion is no category name,
\* the category is "base".
C6_UnexpectedContentIsBase ==
    (pc = "enrich" /\ llm.kind = "ok" /\ lower(strip(llm.content)) \notin Categories)
        => category = base

\* the completion was no category name, and the heuristic says otherwise
C6_Witness ==
    /\ pc = "enrich"
    /\ llm.kind = "ok"
    /\ lower(strip(llm.content)) \notin Categories
    /\ category = base
    /\ _fallback_categorize(request.text) = high_risk

\* the contact completion is not a JSON object once its fence is stripped
NotJsonObject(content) ==
    \/ json_loads(strip_code_fence(strip_doc(content))).exc # "none"
    \/ json_loads(strip_code_fence(strip_doc(content))).val.k # "obj"

\* C7: when the contact call fails or its content is no JSON object,
\* extract_contact returns what _fallback_extract_contact returns for the
\* text, and contact is built of that.
C7_ContactFallsBack ==
    (pc = "entities" /\ (llm.kind # "ok" \/ NotJsonObject(llm.content))) =>
        /\ extract_contact(request.text, llm) = _fallback_extract_contact(request.text)
        /\ contact = BuildContact(_fallback_extract_contact(request.text)).val

\* prose before the JSON, and the regex fallback found a name in the text
C7_Witness ==
    /\ pc = "entities"
    /\ llm.kind = "ok"
    /\ NotJsonObject(llm.content)
    /\ contact.k = "obj"
    /\ contact.v.first_name = JStr(<<"J","o","h","n">>)
    /\ contact.v.last_name = JStr(<<"S","m","i","t","h">>)

\* the entity completion is not JSON once its fence is stripped
NotJson(content) == json_loads(strip_code_fence(strip_doc(content))).exc # "none"

\* geo_names lists each fallback candidate of the text once
GeocodedCandidates ==
    /\ Range(geo_names) = _extract_city_candidates_fallback(request.text)
    /\ Len(geo_names) = Cardinality(_extract_city_candidates_fallback(request.text))

\* C8: when the entity call fails or its content is not JSON,
\* extract_entities returns what _fallback_extract_entities returns for
\* the text, its four typo fields are null, and the enrichment of the
\* response carries no typo.
C8_EntitiesFallBack ==
    /\ (pc = "categorize" /\ (llm.kind # "ok" \/ NotJson(llm.content))) =>
          /\ path = "fallback"
          /\ GeocodedCandidates
          /\ [entities |-> entities_data, country_map |-> country_map, typos |-> typo_data]
                = _fallback_extract_entities(request.text, GeoGathered)
          /\ typo_data = JObj(NullTypos)
    /\ (Answered /\ path = "fallback" /\ response.status = 200
            /\ response.body.enrichment # JNull) =>
          \A f \in TypoFields : response.body.enrichment.v[f] = JNull

\* the completion was not JSON and the fallback found a city
C8_Witness ==
    /\ pc = "categorize"
    /\ llm.kind = "ok"
    /\ NotJson(llm.content)
    /\ path = "fallback"
    /\ \E i \in 1..Len(entities_data) : entities_data[i].type = CityT

\* C9: each country code of the country map is fetched at most once, and
\* no other code is fetched.
C9_OneFetchPerCode ==
    \A code \in DOMAIN calls.em :
        /\ calls.em[code] <= 1
        /\ \E key \in DOMAIN country_map : country_map[key] = code

\* two names of the country map have the same code, fetched once
C9_Witness ==
    /\ pc = "emergency"
    /\ \E k1, k2 \in DOMAIN country_map :
          /\ k1 # k2
          /\ country_map[k1] = country_map[k2]
          /\ country_map[k1] \in DOMAIN calls.em
          /\ calls.em[country_map[k1]] = 1

\* the codes the geocoder returned for the city name
GeocodedAs(city) ==
    {geo_results[j].r.country_code :
        j \in {i \in 1..Len(geo_names) : geo_names[i] = city /\ geo_results[i].r.found}}

\* C10: in the LLM path a city of the static table has the table's code,
\* any other city that was geocoded has the geocoder's code, and a city
\* that is neither has no entry.
C10_StaticTableWins ==
    (pc = "categorize" /\ path = "llm") =>
        \A i \in 1..Len(entities_data) :
            LET city == entities_data[i].value
            IN entities_data[i].type = CityT =>
                  IF city \in DOMAIN mappings
                  THEN city \in DOMAIN country_map /\ country_map[city] = mappings[city]
                  ELSE IF GeocodedAs(city) # {}
                       THEN city \in DOMAIN country_map
                            /\ country_map[city] \in GeocodedAs(city)
                       ELSE city \notin DOMAIN country_map

\* a city of the static table that the geocoder placed in another country
C10_Witness ==
    /\ pc = "categorize"
    /\ path = "llm"
    /\ \E i \in 1..Len(geo_names) :
          /\ geo_names[i] \in DOMAIN mappings
          /\ geo_results[i].r.found
          /\ geo_results[i].r.country_code # mappings[geo_names[i]]
          /\ country_map[geo_names[i]] = mappings[geo_names[i]]

\* the geocoding of task i found no place that is accepted
GeocodeFailed(i) == geo_results[i].done /\ ~geo_results[i].r.found

\* the codes the geocoder returned under the place name
PlacedAs(place) ==
    {geo_results[j].r.country_code :
        j \in {i \in 1..Len(geo_results) :
                  geo_results[i].r.found /\ geo_results[i].r.city = place}}

\* C11: when the geocoding of a city finds no accepted place, extract_entities
\* still returns without raising, on the path the completion alone decided,
\* and the code of every other city whose geocoding found a place is in the
\* country map.
C11_GeocodingBestEffort ==
    (pc = "categorize" /\ \E i \in 1..Len(geo_results) : GeocodeFailed(i)) =>
        /\ raised = NoException
        /\ response = NoResponse
        /\ path = IF ParsedEntities(llm).exc = "none" THEN "llm" ELSE "fallback"
        /\ path = "llm" =>
              \A j \in 1..Len(geo_results) :
                  geo_results[j].r.found =>
                      /\ lower(geo_names[j]) \in DOMAIN country_map
                      /\ lower(geo_names[j]) \notin DOMAIN mappings =>
                            country_map[lower(geo_names[j])] \in GeocodedAs(geo_names[j])
        /\ path = "fallback" =>
              \A j \in 1..Len(geo_results) :
                  geo_results[j].r.found =>
                      /\ lower(geo_results[j].r.city) \in DOMAIN country_map
                      /\ country_map[lower(geo_results[j].r.city)]
                            \in PlacedAs(geo_results[j].r.city)

\* in the LLM path the first city found no place and a later one, not of the
\* static table, has the geocoder's code
C11_Witness ==
    /\ pc = "categorize"
    /\ path = "llm"
    /\ \E i, j \in 1..Len(geo_results) :
          /\ i < j
          /\ GeocodeFailed(i)
          /\ geo_results[j].r.found
          /\ geo_names[j] \notin DOMAIN mappings
          /\ country_map[geo_names[j]] = geo_results[j].r.country_code

\* the numbers of the local_emergency_numbers that enrich returned
EnrichedNumbers ==
    IF enrichment_data.local_emergency_numbers = JNull THEN {}
    ELSE {enrichment_data.local_emergency_numbers.v[i].v :
             i \in 1..Len(enrichment_data.local_emergency_numbers.v)}

\* C12: a fetch that fails returns no number, and the local_emergency_numbers
\* that enrich returns hold each number that a fetch returned once and
\* nothing else, in whatever order the fetches ended; with no number at all
\* it is null.
C12_UnionOfFetched ==
    /\ \A kind \in EmFailures : _fetch_emergency_numbers(EmFailed(kind)) = <<>>
    /\ Answered =>
          /\ EnrichedNumbers = UNION {Range(em_results[code].r) : code \in DOMAIN em_results}
          /\ enrichment_data.local_emergency_numbers # JNull =>
                /\ Len(enrichment_data.local_emergency_numbers.v)
                      = Cardinality(EnrichedNumbers)
                /\ EnrichedNumbers # {}

\* two codes were fetched, one fetch returned nothing, and the numbers of
\* the other are what enrich returned
C12_Witness ==
    /\ Answered
    /\ response.status = 200
    /\ \E c1, c2 \in DOMAIN em_results :
          /\ em_results[c1].r = <<>>
          /\ em_results[c2].r # <<>>
          /\ EnrichedNumbers = Range(em_results[c2].r)

\* the tasks of the geocoding gather that asked for name
GeocodeTasks(name) == {i \in 1..Len(geo_names) : geo_names[i] = name}

\* C13: each of the three LLM-backed steps has sent one completion request
\* once it has run, however that request ended, and none before; every
\* geocoding task and every emergency-number fetch has sent one request,
\* failed or not.
C13_NoCallRepeated ==
    /\ calls.contact <= 1
    /\ calls.entities <= 1
    /\ calls.category <= 1
    /\ pc \in {"entities", "geocode", "categorize", "enrich", "emergency"} =>
          calls.contact = 1
    /\ pc \in {"geocode", "categorize", "enrich", "emergency"} => calls.entities = 1
    /\ pc \in {"enrich", "emergency"} => calls.category = 1
    /\ pc = "contact" => calls = NoCalls
    /\ \A name \in DOMAIN calls.geo : calls.geo[name] = Cardinality(GeocodeTasks(name))
    /\ \A code \in DOMAIN calls.em : calls.em[code] = 1

\* every step ran; the classification call timed out, a geocoding and a
\* fetch of emergency numbers failed, and each was asked once
C13_Witness ==
    /\ Answered
    /\ response.status = 200
    /\ llm.kind = "timeout"
    /\ calls.contact = 1 /\ calls.entities = 1 /\ calls.category = 1
    /\ \E i \in 1..Len(geo_results) :
          GeocodeFailed(i) /\ calls.geo[geo_names[i]] = 1
    /\ \E code \in DOMAIN em_results :
          em_results[code].r = <<>> /\ calls.em[code] = 1

\* C14: every entity of a 200 response has one of the four types and a
\* value that is its own lowercasing, on the LLM path and on the fallback
\* path.
C14_EntitiesTypedAndLowercase ==
    (Answered /\ response.status = 200 /\ response.body.entities # JNull) =>
        \A i \in 1..Len(response.body.entities.v) :
            /\ response.body.entities.v[i].type \in EntityTypes
            /\ lower(response.body.entities.v[i].value) = response.body.entities.v[i].value

\* a 200 response on the LLM path, whose completion wrote the city as
\* " Paris"
C14_Witness ==
    /\ Answered
    /\ response.status = 200
    /\ path = "llm"
    /\ response.body.entities # JNull
    /\ \E i \in 1..Len(response.body.entities.v) :
          response.body.entities.v[i] = [type |-> CityT, value |-> <<"p","a","r","i","s">>]

\* a 200 response on the fallback path, the text having "Rome" and
\* "Chapter Roma"
C14_FallbackWitness ==
    /\ Answered
    /\ response.status = 200
    /\ path = "fallback"
    /\ response.body.entities # JNull
    /\ \E i \in 1..Len(response.body.entities.v) :
          response.body.entities.v[i].type = HotelT

\* what the handler and its steps have computed for the request
HandlerLocals ==
    <<llm, contact, path, entities_data, country_map, typo_data, geo_names, geo_results,
      category, em_results, enrichment_data, raised, calls>>

EntitiesExtracted ==
    /\ calls.entities = 1
    /\ \A i \in 1..Len(geo_results) : geo_results[i].done
    /\ path = "llm" => country_map = MergeCountryMap(entities_data, GeoGathered)
    /\ path = "fallback" =>
          country_map = _fallback_extract_entities(request.text, GeoGathered).country_map

\* C16: an emergency-number fetch is started only when extract_entities
\* has returned, and for the codes of the country map it returned; a 200
\* response is sent only when contact extraction, entity extraction,
\* categorization and every fetch of the enrichment have ended.
C16_StepsOrdered ==
    /\ (pc = "emergency" \/ DOMAIN calls.em # {}) =>
          /\ EntitiesExtracted
          /\ calls.contact = 1
          /\ DOMAIN calls.em = {country_map[key] : key \in DOMAIN country_map}
          /\ DOMAIN em_results = DOMAIN calls.em
    /\ (Answered /\ response.status = 200) =>
          /\ calls.contact = 1
          /\ EntitiesExtracted
          /\ calls.category = 1 /\ category \in Categories
          /\ \A code \in DOMAIN em_results : em_results[code].done
          /\ Locations(entities_data) # <<>> =>
                DOMAIN em_results = {country_map[key] : key \in DOMAIN country_map}

\* a 200 response after two geocodings and the fetches for two codes
C16_Witness ==
    /\ Answered
    /\ response.status = 200
    /\ Len(geo_results) = 2
    /\ Cardinality(DOMAIN em_results) = 2
    /\ \A code \in DOMAIN em_results : em_results[code].done

\* the steps of normalize_message in the order of the code
StageOrder == <<"contact", "entities", "geocode", "categorize", "enrich", "emergency", "done">>
StageRank(stage) == CHOOSE n \in 1..Len(StageOrder) : StageOrder[n] = stage

\* the requests of the running gather that have not ended
InFlight(geo, em) ==
    Cardinality({i \in 1..Len(geo) : ~geo[i].done})
        + Cardinality({code \in DOMAIN em : ~em[code].done})

\* the handler moves to a later step, or one request of its gather ends
Progresses ==
    \/ StageRank(pc') > StageRank(pc)
    \/ /\ pc' = pc
       /\ InFlight(geo_results', em_results') < InFlight(geo_results, em_results)

\* C17: every step of a running handler moves it to a later step or ends
\* one request in flight (no step goes back to a call that was made), and
\* with every outbound call ending, a running handler reaches its response,
\* a 200 or an error.
C17_EveryRequestAnswered ==
    /\ [][Running => Progresses]_vars
    /\ Running ~> (pc = "done" /\ response # NoResponse)

\* a request answered through the regex fallback after a failed completion
\* call, a failed geocoding and a failed emergency-number fetch
C17_Witness ==
    /\ Answered
    /\ response # NoResponse
    /\ path = "fallback"
    /\ \E i \in 1..Len(geo_results) : GeocodeFailed(i)
    /\ \E code \in DOMAIN em_results : em_results[code].done /\ em_results[code].r = <<>>

\* C18: GET /healthz is answered with status 200 and the body {"ok": true},
\* with or without OPENAI_API_KEY and whatever the requests before it met,
\* and the handler makes no outbound call and raises nothing.
C18_HealthzAlwaysOk ==
    (pc = "done" /\ request = HealthzRequest) =>
        /\ response = [status |-> 200, body |-> [ok |-> TRUE]]
        /\ calls = NoCalls
        /\ raised = NoException

\* a health check answered by a process without the key, after another request
C18_Witness ==
    /\ pc = "done"
    /\ request = HealthzRequest
    /\ ~api_key
    /\ served
    /\ response.status = 200

\* C19: the message_id of a 200 response of POST /normalize is the
\* message_id of the request it answers, character for character.
C19_MessageIdEchoed ==
    (Answered /\ response.status = 200) =>
        /\ request \in ValidRequests
        /\ response.body.message_id = request.message_id

\* a 200 response to a request whose id is not the id of the first request
\* of the inputs, from a process that answered a request before
C19_Witness ==
    /\ Answered
    /\ response.status = 200
    /\ served
    /\ response.body.message_id = <<"m", "2">>

\* one of the keywords stands somewhere in the lowercased text
OccursIn(keywords, text_lower) ==
    \E n \in 1..Len(keywords) :
        \E k \in 1..(Len(text_lower) - Len(keywords[n]) + 1) :
            SubSeq(text_lower, k, k + Len(keywords[n]) - 1) = keywords[n]

\* categorize has just returned what the keyword fallback gave: its
\* completion call failed
KeywordClassified == pc = "enrich" /\ llm.kind # "ok"

\* C20: when the keyword fallback classifies, a text with a high-risk
\* keyword is high_risk whether or not it has an urgent keyword, a text
\* with an urgent keyword and no high-risk keyword is urgent, and any other
\* text is base.
C20_HighRiskFirst ==
    KeywordClassified =>
        LET has_high_risk == OccursIn(high_risk_keywords, lower(request.text))
            has_urgent == OccursIn(urgent_keywords, lower(request.text))
        IN /\ has_high_risk => category = high_risk
           /\ category = urgent <=> (~has_high_risk /\ has_urgent)
           /\ (~has_high_risk /\ ~has_urgent) => category = base

\* a text with a high-risk and an urgent keyword, classified by the fallback
C20_Witness ==
    /\ KeywordClassified
    /\ OccursIn(high_risk_keywords, lower(request.text))
    /\ OccursIn(urgent_keywords, lower(request.text))
    /\ category = high_risk

\* the fallback returning urgent, and base
C20_UrgentWitness == KeywordClassified /\ category = urgent
C20_BaseWitness == KeywordClassified /\ category = base

\* a string of exactly ten decimal digits
TenDigits(x) == x.k = "str" /\ Len(x.v) = 10 /\ \A i \in 1..Len(x.v) : IsDigit(x.v[i])

\* C21: in every 200 response contact.phone is null or a string of exactly
\* ten decimal digits.  (Violated: a completion whose phone is the empty
\* string passes the truthiness test of line 98 untouched.)
C21_PhoneNullOrTenDigits ==
    (Answered /\ response.status = 200 /\ response.body.contact # JNull) =>
        \/ response.body.contact.v.phone = JNull
        \/ TenDigits(response.body.contact.v.phone)

\* the text, normalized, contains one of the hotel keywords
HasHotelKeyword(text) ==
    \E keyword \in hotel_keywords : OccursIn(<<keyword>>, normalize_text(text))

\* C22: when the regex fallback extracted the entities of a text that
\* contains one of the hotel keywords, one of the entities is a hotel.
\* (Violated: the loop of _extract_hotels_fallback appends for the
\* keyword "chapter roma" only.)
C22_HotelKeywordYieldsHotel ==
    (pc = "categorize" /\ path = "fallback" /\ HasHotelKeyword(request.text)) =>
        \E i \in 1..Len(entities_data) : entities_data[i].type = HotelT

\* the number has a character that is not white space
HasDigits(num) == \E i \in 1..Len(num) : num[i] \notin SpaceChars

\* what the answer lists, in the order of the claim: "112" for a member,
\* the non-blank dispatch numbers, the non-blank police numbers
Listed(em) ==
    (IF em.member_112 THEN <<N112>> ELSE <<>>)
        \o SelectSeq(em.dispatch, HasDigits) \o SelectSeq(em.police, HasDigits)

\* where num stands first in list
FirstAt(list, num) ==
    CHOOSE i \in 1..Len(list) : list[i] = num /\ \A j \in 1..(i - 1) : list[j] # num

\* numbers is what the claim gives for an answer em of the API
FetchedAs(em, numbers) ==
    IF em.kind # "ok" \/ ~em.has_data THEN numbers = <<>>
    ELSE /\ Range(numbers) = Range(Listed(em))
         /\ \A a, b \in 1..Len(numbers) : a # b => numbers[a] # numbers[b]
         /\ \A a, b \in 1..Len(numbers) :
               a < b => FirstAt(Listed(em), numbers[a]) < FirstAt(Listed(em), numbers[b])
         /\ em.member_112 => (numbers # <<>> /\ numbers[1] = N112)

\* C23: for every way a fetch can end, the list _fetch_emergency_numbers
\* returns is empty after an error, and else "112" first for a member of
\* the 112 group, then the non-blank dispatch numbers, then the non-blank
\* police numbers, each number once; every list a finished fetch left is
\* such a list.
C23_NumbersOrdered ==
    pc = "emergency" =>
        /\ \A em \in EmOutcomes : FetchedAs(em, _fetch_emergency_numbers(em))
        /\ \A code \in DOMAIN em_results :
              em_results[code].done =>
                  \E em \in EmOutcomes : FetchedAs(em, em_results[code].r)

\* a fetch has ended for a member of the 112 group whose dispatch and police
\* lists name "112" again: the list is "112", "17"
C23_Witness ==
    /\ pc = "emergency"
    /\ \E code \in DOMAIN em_results :
          /\ em_results[code].done
          /\ em_results[code].r = <<N112, <<"1", "7">>>>

\* the positions of the gather that asked for the city of position i
OwnRequests(i) == {j \in 1..Len(geo_names) : lower(geo_names[j]) = lower(geo_names[i])}

\* the codes the requests of those positions returned
OwnCodes(i) == {geo_results[j].r.country_code : j \in {k \in OwnRequests(i) : geo_results[k].r.found}}

\* C24: in the LLM path, whatever the order in which the geocoding requests
\* ended and whichever of them failed, the map _get_country_codes returns
\* has for each city the code its own request returned and no entry for a
\* city whose request gave no place; the country map keeps that entry for
\* every city that the static table does not name.
C24_PairedByPosition ==
    (pc = "categorize" /\ path = "llm" /\ geo_names # <<>>) =>
        \A i \in 1..Len(geo_names) :
            /\ IF OwnCodes(i) = {}
               THEN lower(geo_names[i]) \notin DOMAIN _get_country_codes(geo_names, GeoGathered)
               ELSE /\ lower(geo_names[i]) \in DOMAIN _get_country_codes(geo_names, GeoGathered)
                    /\ _get_country_codes(geo_names, GeoGathered)[lower(geo_names[i])]
                          \in OwnCodes(i)
            /\ (OwnRequests(i) = {i} /\ geo_results[i].r.found) =>
                  _get_country_codes(geo_names, GeoGathered)[lower(geo_names[i])]
                      = geo_results[i].r.country_code
            /\ lower(geo_names[i]) \notin DOMAIN mappings =>
                  IF OwnCodes(i) = {}
                  THEN lower(geo_names[i]) \notin DOMAIN country_map
                  ELSE /\ lower(geo_names[i]) \in DOMAIN country_map
                       /\ country_map[lower(geo_names[i])] \in OwnCodes(i)

\* two cities geocoded, the request of the first failed and the request of
\* the second returned a place: the second city has its code
C24_Witness ==
    /\ pc = "categorize"
    /\ path = "llm"
    /\ Len(geo_names) = 2
    /\ geo_names[1] # geo_names[2]
    /\ ~geo_results[1].r.found
    /\ geo_results[2].r.found
    /\ geo_names[2] \in DOMAIN country_map
    /\ country_map[geo_names[2]] = geo_results[2].r.country_code

\* None or the empty string
IsEmpty(x) == x = JNull \/ x = JStr(<<>>)

\* C25: each optional section of a 200 response is null exactly when it is
\* empty, and a section that is not null holds a non-empty element: contact
\* against the five fields extract_contact returned, entities against the
\* list extract_entities returned, enrichment against the numbers enrich
\* returned and the four typo fields.  (Violated: a key of the typos object
\* that is no field of Enrichment makes the section an object of five
\* nulls, and a "local_emergency_numbers" key in it replaces the numbers.)
C25_SectionsNullIffEmpty ==
    /\ (pc = "entities" /\ raised = NoException) =>
          /\ contact = JNull <=>
                \A f \in ContactFields : IsEmpty(extract_contact(request.text, llm)[f])
          /\ contact # JNull => \E f \in ContactFields : ~IsEmpty(contact.v[f])
    /\ (Answered /\ response.status = 200) =>
          /\ response.body.contact = contact
          /\ response.body.entities = JNull <=> entities_data = <<>>
          /\ response.body.enrichment = JNull <=>
                /\ enrichment_data.local_emergency_numbers = JNull
                /\ \A f \in TypoFields :
                      f \in DOMAIN typo_data.v => IsEmpty(typo_data.v[f])
          /\ response.body.enrichment # JNull =>
                \E f \in EnrichmentFields : response.body.enrichment.v[f] # JNull

\* C26: without OPENAI_API_KEY a well-formed POST /normalize ends at its
\* first step: no outbound call of any kind is made, no fallback runs,
\* nothing is extracted, and the answer is status 500.
C26_NoKeyAnswered500 ==
    (~api_key /\ request \in ValidRequests) =>
        /\ pc \in {"contact", "done"}
        /\ calls = NoCalls
        /\ llm = NoLLM
        /\ path = "none"
        /\ contact = JNull /\ entities_data = <<>> /\ category = <<>>
        /\ geo_results = <<>> /\ em_results = EmptyDict
        /\ pc = "done" =>
              /\ raised = ApiKeyError
              /\ response.status = 500
              /\ response.body.v["error"] = JStr(InternalError)

\* a well-formed request answered 500 by a process without the key, the
\* text being one the regex fallbacks find a name, a phone and a city in
C26_Witness ==
    /\ ~api_key
    /\ Answered
    /\ request \in ValidRequests
    /\ request.text = Text1
    /\ response.status = 500

\* C27: local_emergency_numbers of a 200 response is what the
\* emergency-number lookup returned, whatever typos the entity completion
\* held.  (Violated: a "local_emergency_numbers" key of the typos object
\* replaces the lookup's value in enrichment_data.update.)
C27_TyposLeaveNumbers ==
    (Answered /\ response.status = 200) =>
        IF response.body.enrichment = JNull
        THEN enrichment_data.local_emergency_numbers = JNull
        ELSE response.body.enrichment.v["local_emergency_numbers"]
                 = enrichment_data.local_emergency_numbers

\* the values of the city and country entities extract_entities returned
LocationValues == Range(Locations(entities_data))

\* C28: on both paths every key of the country map is the value of a city
\* or country entity returned with it, the emergency-number fetches are for
\* codes of those keys only, and with no city and no country entity there
\* is no entry and no fetch.
C28_MapKeysAreEntities ==
    /\ DOMAIN country_map \subseteq LocationValues
    /\ DOMAIN calls.em \subseteq {country_map[key] : key \in DOMAIN country_map \cap LocationValues}
    /\ DOMAIN em_results = DOMAIN calls.em
    /\ LocationValues = {} => (country_map = EmptyDict /\ calls.em = EmptyDict)

\* fetches started on the fallback path for the country of a city entity
C28_Witness ==
    /\ pc = "emergency"
    /\ path = "fallback"
    /\ DOMAIN calls.em # {}
    /\ \E i \in 1..Len(entities_data) :
          /\ entities_data[i].type = CityT
          /\ entities_data[i].value \in DOMAIN country_map
          /\ country_map[entities_data[i].value] \in DOMAIN calls.em

\* the same on the LLM path, and a request with entities but no city or
\* country, answered without a fetch
C28_LLMWitness == pc = "emergency" /\ path = "llm" /\ DOMAIN calls.em # {}
C28_NoLocationWitness ==
    Answered /\ response.status = 200 /\ entities_data # <<>> /\ LocationValues = {}

\* a non-empty list of strings without a duplicate and without a blank
ProperNumbers(x) ==
    /\ x.k = "list"
    /\ x.v # <<>>
    /\ \A a, b \in 1..Len(x.v) : a # b => x.v[a] # x.v[b]
    /\ \A a \in 1..Len(x.v) : x.v[a].k = "str" /\ HasDigits(x.v[a].v)

\* C29: local_emergency_numbers of a 200 response is null or a non-empty
\* list without duplicate and without blank entry.  (Violated: the value
\* enrich returns is such a list or None, but a "local_emergency_numbers"
\* key of the typos object replaces it, with the empty list for one.)
C29_NumbersNullOrProper ==
    (Answered /\ response.status = 200 /\ response.body.enrichment # JNull) =>
        \/ response.body.enrichment.v["local_emergency_numbers"] = JNull
        \/ ProperNumbers(response.body.enrichment.v["local_emergency_numbers"])

\* the values of the entities of one type that extract_entities returned
ValuesOfType(type) ==
    {entities_data[i].value : i \in {j \in 1..Len(entities_data) : entities_data[j].type = type}}

C30_TableWitness ==
    /\ pc = "emergency"
    /\ path = "llm"
    /\ ValuesOfType(CityT) # {}
    /\ \E name \in ValuesOfType(CountryT) : country_map[name] \in DOMAIN calls.em
====
